---- MODULE Spec2Model ----
(***************************************************************************)
(* EastSideCoin: the end-to-end encrypted messaging envelope               *)
(* (app/encryption_utils.py) and the relay that stores and forwards it     *)
(* (app/consumers.py, app/views.py).                                       *)
(*                                                                         *)
(* Bytes are sequences over 0..255, text is a sequence of character codes. *)
(* The codec (base64, PKCS#7, UTF-8) is computed as the code computes it.  *)
(* The primitives of the `cryptography` package are replaced by small      *)
(* stand-ins that keep the properties the callers rely on:                 *)
(*   AES-CBC   a keyed permutation of 16-byte blocks, chained with XOR;    *)
(*   HMAC      a keyed injective map of the message (no collisions);       *)
(*   RSA-OAEP  a randomised encoding that only the matching private key    *)
(*             opens and that rejects every malformed ciphertext.          *)
(***************************************************************************)
EXTENDS Integers, Sequences, FiniteSets, TLC

\* ---------------------------------------------------------------------------
\* outcomes of a Python call: a returned value or a raised exception
\* ---------------------------------------------------------------------------
Ret(v) == [ok |-> TRUE, v |-> v]
Raise(e) == [ok |-> FALSE, exc |-> e]

\* Optional[...] values
NoneVal == [none |-> TRUE]
Some(v) == [none |-> FALSE, v |-> v]

\* dict.get(k) followed by a truth test: a missing key, None and "" are falsy
Truthy(d, k) == k \in DOMAIN d /\ d[k] # <<>>

\* ---------------------------------------------------------------------------
\* bit operations on bytes
\* ---------------------------------------------------------------------------
RECURSIVE Pow2(_)
Pow2(n) == IF n = 0 THEN 1 ELSE 2 * Pow2(n - 1)

Bit(x, k) == (x \div Pow2(k)) % 2

RECURSIVE XorBits(_, _, _)
XorBits(a, b, k) ==
  IF k < 0 THEN 0
  ELSE ((Bit(a, k) + Bit(b, k)) % 2) * Pow2(k) + XorBits(a, b, k - 1)

Xor8(a, b) == XorBits(a, b, 7)

XorSeq(a, b) == [i \in 1..Len(a) |-> Xor8(a[i], b[i])]

RECURSIVE SumSeq(_)
SumSeq(s) == IF Len(s) = 0 THEN 0 ELSE s[1] + SumSeq(Tail(s))

Repeat(x, n) == [i \in 1..n |-> x]

\* ---------------------------------------------------------------------------
\* Base64 helpers (tolerant: whitespace, URL-safe, padding)
\* ---------------------------------------------------------------------------
PadChar == 61
PlusChar == 43
SlashChar == 47
DashChar == 45
UnderscoreChar == 95

\* the characters \s matches in a str pattern, within 0..255
Whitespace == {9, 10, 11, 12, 13, 28, 29, 30, 31, 32, 133, 160}

\* the base64 alphabet: index -> character code
B64Char(i) ==
  IF i < 26 THEN 65 + i
  ELSE IF i < 52 THEN 97 + (i - 26)
  ELSE IF i < 62 THEN 48 + (i - 52)
  ELSE IF i = 62 THEN PlusChar
  ELSE SlashChar

\* table_a2b_base64: character code -> index, 64 for a character outside
\* the alphabet
B64Index(c) ==
  IF c >= 65 /\ c <= 90 THEN c - 65
  ELSE IF c >= 97 /\ c <= 122 THEN c - 97 + 26
  ELSE IF c >= 48 /\ c <= 57 THEN c - 48 + 52
  ELSE IF c = PlusChar THEN 62
  ELSE IF c = SlashChar THEN 63
  ELSE 64

\* base64.b64encode: every 3 bytes give 4 characters, the last group is
\* padded with '='
ByteAt(b, j) == IF j <= Len(b) THEN b[j] ELSE 0

B64EncChar(b, k) ==
  LET g == (k - 1) \div 4
      r == (k - 1) % 4
      b1 == ByteAt(b, 3 * g + 1)
      b2 == ByteAt(b, 3 * g + 2)
      b3 == ByteAt(b, 3 * g + 3)
  IN  IF r = 0 THEN B64Char(b1 \div 4)
      ELSE IF r = 1 THEN B64Char((b1 % 4) * 16 + (b2 \div 16))
      ELSE IF r = 2 THEN
        IF 3 * g + 2 > Len(b) THEN PadChar
        ELSE B64Char((b2 % 16) * 4 + (b3 \div 64))
      ELSE
        IF 3 * g + 3 > Len(b) THEN PadChar ELSE B64Char(b3 % 64)

b64e(b) == [k \in 1..(4 * ((Len(b) + 2) \div 3)) |-> B64EncChar(b, k)]

UrlSafeChar(c) ==
  IF c = PlusChar THEN DashChar
  ELSE IF c = SlashChar THEN UnderscoreChar
  ELSE c

b64e_urlsafe_nopad(b) ==
  LET e == b64e(b) IN
  SelectSeq([i \in 1..Len(e) |-> UrlSafeChar(e[i])], LAMBDA c : c # PadChar)

SelectNot(s, set) == SelectSeq(s, LAMBDA c : c \notin set)

MapChar(c) ==
  IF c = DashChar THEN PlusChar
  ELSE IF c = UnderscoreChar THEN SlashChar
  ELSE c

\* variant: the missing padding is not added
b64_fix_no_pad(s) ==
  LET t == SelectNot(s, Whitespace) IN [i \in 1..Len(t) |-> MapChar(t[i])]

b64_fix(s) ==
  LET t == SelectNot(s, Whitespace)
      u == [i \in 1..Len(t) |-> MapChar(t[i])]
      pad == Len(u) % 4
  IN  IF pad # 0 THEN u \o Repeat(PadChar, 4 - pad) ELSE u

\* binascii.a2b_base64 in its default, non-strict mode.  Characters that
\* are neither in the alphabet nor '=' are skipped without any effect.  With
\* quad the number of alphabet characters read so far modulo 4, a '=' that
\* completes the padding of an open group (quad = 3, or quad = 2 and the
\* second '=' in a row) ends the parse; without such a '=' the input must
\* hold a whole number of groups.
IsData(c) == B64Index(c) < 64

DataBefore(t, i) == Cardinality({j \in 1..(i - 1) : IsData(t[j])})

\* the number of '=' in the run of '=' that ends at position i
PadRun(t, i) ==
  i - (CHOOSE j \in 0..(i - 1) :
         /\ j = 0 \/ t[j] # PadChar
         /\ \A m \in (j + 1)..i : t[m] = PadChar)

EndsParse(t, i) ==
  /\ t[i] = PadChar
  /\ (DataBefore(t, i) % 4) >= 2
  /\ (DataBefore(t, i) % 4) + PadRun(t, i) >= 4

SextetByte(d, j) ==
  LET g == (j - 1) \div 3
      r == (j - 1) % 3
  IN  IF r = 0 THEN d[4 * g + 1] * 4 + (d[4 * g + 2] \div 16)
      ELSE IF r = 1 THEN (d[4 * g + 2] % 16) * 16 + (d[4 * g + 3] \div 4)
      ELSE (d[4 * g + 3] % 4) * 64 + d[4 * g + 4]

a2b_base64(s) ==
  LET t == SelectSeq(s, LAMBDA c : IsData(c) \/ c = PadChar)
      stops == {i \in 1..Len(t) : EndsParse(t, i)}
      stop == IF stops = {} THEN Len(t) + 1
              ELSE CHOOSE i \in stops : \A j \in stops : i <= j
      ds == SelectSeq(t, IsData)
      n == DataBefore(t, stop)
      d == [k \in 1..n |-> B64Index(ds[k])]
  IN  IF stops = {} /\ n % 4 # 0 THEN Raise("binascii.Error")
      ELSE Ret([j \in 1..((n * 6) \div 8) |-> SextetByte(d, j)])

\* base64.b64decode(str): the text must be ASCII, then a2b_base64
b64decode(s) ==
  IF \E i \in 1..Len(s) : s[i] >= 128 THEN Raise("ValueError")
  ELSE a2b_base64(s)

b64d(s) == LET fixed == b64_fix(s) IN b64decode(fixed)

\* ---------------------------------------------------------------------------
\* PKCS#7 padding
\* ---------------------------------------------------------------------------
AES_BLOCK == 16

\* variant: no padding block for data that already fills whole blocks
pkcs7_pad_no_full_block(data, block_size) ==
  LET pad_len == (block_size - (Len(data) % block_size)) % block_size
  IN  data \o Repeat(pad_len, pad_len)

pkcs7_pad(data, block_size) ==
  LET pad_len == block_size - (Len(data) % block_size)
  IN  data \o Repeat(pad_len, pad_len)

\* variant: only the last byte is looked at
pkcs7_unpad_last_byte_only(padded, block_size) ==
  IF Len(padded) = 0 THEN Raise("ValueError")
  ELSE
    LET pad_len == padded[Len(padded)] IN
    IF pad_len < 1 \/ pad_len > block_size \/ Len(padded) < pad_len
      THEN Raise("ValueError")
    ELSE Ret(SubSeq(padded, 1, Len(padded) - pad_len))

pkcs7_unpad(padded, block_size) ==
  IF Len(padded) = 0 THEN Raise("ValueError")
  ELSE
    LET pad_len == padded[Len(padded)] IN
    IF pad_len < 1 \/ pad_len > block_size \/ Len(padded) < pad_len
      THEN Raise("ValueError")
    ELSE IF SubSeq(padded, Len(padded) - pad_len + 1, Len(padded))
              # Repeat(pad_len, pad_len)
      THEN Raise("ValueError")
    ELSE Ret(SubSeq(padded, 1, Len(padded) - pad_len))

\* ---------------------------------------------------------------------------
\* str.encode("utf-8") / bytes.decode("utf-8") on sequences of code points
\* ---------------------------------------------------------------------------
Utf8EncodeChar(cp) ==
  IF cp < 128 THEN <<cp>>
  ELSE IF cp < 2048 THEN <<192 + (cp \div 64), 128 + (cp % 64)>>
  ELSE IF cp < 65536 THEN
    <<224 + (cp \div 4096), 128 + ((cp \div 64) % 64), 128 + (cp % 64)>>
  ELSE
    <<240 + (cp \div 262144), 128 + ((cp \div 4096) % 64),
      128 + ((cp \div 64) % 64), 128 + (cp % 64)>>

RECURSIVE utf8_encode(_)
utf8_encode(str) ==
  IF Len(str) = 0 THEN <<>>
  ELSE Utf8EncodeChar(Head(str)) \o utf8_encode(Tail(str))

IsCont(b) == b >= 128 /\ b < 192

RECURSIVE utf8_decode_from(_, _, _)
utf8_decode_from(b, i, out) ==
  IF i > Len(b) THEN Ret(out)
  ELSE IF b[i] < 128 THEN utf8_decode_from(b, i + 1, Append(out, b[i]))
  ELSE IF b[i] >= 194 /\ b[i] < 224 THEN
    IF i + 1 <= Len(b) /\ IsCont(b[i + 1])
      THEN utf8_decode_from(b, i + 2,
             Append(out, (b[i] - 192) * 64 + (b[i + 1] - 128)))
      ELSE Raise("ValueError")
  ELSE IF b[i] >= 224 /\ b[i] < 240 THEN
    IF i + 2 <= Len(b) /\ IsCont(b[i + 1]) /\ IsCont(b[i + 2])
       /\ (b[i] = 224 => b[i + 1] >= 160)
       /\ (b[i] = 237 => b[i + 1] < 160)
      THEN utf8_decode_from(b, i + 3,
             Append(out, (b[i] - 224) * 4096 + (b[i + 1] - 128) * 64
                         + (b[i + 2] - 128)))
      ELSE Raise("ValueError")
  ELSE IF b[i] >= 240 /\ b[i] < 245 THEN
    IF i + 3 <= Len(b) /\ IsCont(b[i + 1]) /\ IsCont(b[i + 2])
       /\ IsCont(b[i + 3])
       /\ (b[i] = 240 => b[i + 1] >= 144)
       /\ (b[i] = 244 => b[i + 1] < 144)
      THEN utf8_decode_from(b, i + 4,
             Append(out, (b[i] - 240) * 262144 + (b[i + 1] - 128) * 4096
                         + (b[i + 2] - 128) * 64 + (b[i + 3] - 128)))
      ELSE Raise("ValueError")
  ELSE Raise("ValueError")

utf8_decode(b) == utf8_decode_from(b, 1, <<>>)

\* ---------------------------------------------------------------------------
\* AES-CBC (cryptography.hazmat Cipher): a keyed permutation of 16-byte
\* blocks, chained with XOR.  The constructor rejects a key that is not 16,
\* 24 or 32 bytes and an IV that is not one block; finalize() rejects data
\* that is not a whole number of blocks.
\* ---------------------------------------------------------------------------
AES_KEY_SIZE == 32
AES_IV_SIZE == 16

BlockKey(key) ==
  [j \in 1..AES_BLOCK |->
     (key[((j - 1) % Len(key)) + 1] + key[((j + 15) % Len(key)) + 1]) % 256]

BlockEncrypt(key, blk) ==
  [j \in 1..AES_BLOCK |-> (blk[j] + BlockKey(key)[j]) % 256]

BlockDecrypt(key, blk) ==
  [j \in 1..AES_BLOCK |-> (blk[j] + 256 - BlockKey(key)[j]) % 256]

RECURSIVE CbcEncryptBlocks(_, _, _)
CbcEncryptBlocks(key, prev, data) ==
  IF Len(data) = 0 THEN <<>>
  ELSE LET c == BlockEncrypt(key, XorSeq(SubSeq(data, 1, AES_BLOCK), prev))
       IN  c \o CbcEncryptBlocks(key, c, SubSeq(data, AES_BLOCK + 1, Len(data)))

RECURSIVE CbcDecryptBlocks(_, _, _)
CbcDecryptBlocks(key, prev, data) ==
  IF Len(data) = 0 THEN <<>>
  ELSE LET c == SubSeq(data, 1, AES_BLOCK)
       IN  XorSeq(BlockDecrypt(key, c), prev)
           \o CbcDecryptBlocks(key, c, SubSeq(data, AES_BLOCK + 1, Len(data)))

CipherOk(key, iv) == Len(key) \in {16, 24, 32} /\ Len(iv) = AES_BLOCK

AesCbcEncrypt(key, iv, data) ==
  IF ~CipherOk(key, iv) \/ Len(data) % AES_BLOCK # 0 THEN Raise("ValueError")
  ELSE Ret(CbcEncryptBlocks(key, iv, data))

AesCbcDecrypt(key, iv, data) ==
  IF ~CipherOk(key, iv) \/ Len(data) % AES_BLOCK # 0 THEN Raise("ValueError")
  ELSE Ret(CbcDecryptBlocks(key, iv, data))

\* ---------------------------------------------------------------------------
\* hmac.new(key, msg, "sha256").digest(): a keyed injective map of msg,
\* so that two different messages never share a digest under one key
\* ---------------------------------------------------------------------------
HmacKeyByte(key, i) == IF Len(key) = 0 THEN 0 ELSE key[((i - 1) % Len(key)) + 1]

hmac_sha256(key, msg) ==
  <<(SumSeq(key) + Len(msg)) % 256>>
  \o [i \in 1..Len(msg) |-> (msg[i] + HmacKeyByte(key, i) + i) % 256]

\* ---------------------------------------------------------------------------
\* RSA keys.  A key pair is named by its id; a PEM text either holds the
\* public half of a pair or does not parse.  RSA-OAEP(SHA-256, MGF1-SHA256):
\* the ciphertext names its key, carries the random seed, the length
\* and two masked copies of the message; decryption accepts it only when the key matches
\* and the two copies agree.
\* ---------------------------------------------------------------------------
RSA_KEY_SIZE == 2048
\* the longest message OAEP with SHA-256 takes under a key of RSA_KEY_SIZE bits
OAEP_MAX_MSG == (RSA_KEY_SIZE \div 8) - 2 * 32 - 2

PublicPem(kid) == [pem |-> "PUBLIC KEY", kid |-> kid]
GarbagePem == [pem |-> "garbage"]
PrivateKey(kid) == [kid |-> kid]
NoKey == [nokey |-> TRUE]

load_pem_public_key(pem) ==
  IF pem.pem = "PUBLIC KEY" THEN Ret(pem.kid) ELSE Raise("ValueError")

OaepEncrypt(raw, kid, seed) ==
  IF Len(raw) > OAEP_MAX_MSG THEN Raise("ValueError")
  ELSE Ret(<<kid, seed, Len(raw)>>
           \o [i \in 1..Len(raw) |-> (raw[i] + 17 * kid + i) % 256]
           \o [i \in 1..Len(raw) |-> Xor8(raw[i], seed)])

OaepDecrypt(enc, kid) ==
  IF Len(enc) < 3 THEN Raise("ValueError")
  ELSE
    LET n == enc[3]
        a == [i \in 1..n |-> (enc[3 + i] + 256 * 17 - 17 * kid - i) % 256]
        b == [i \in 1..n |-> Xor8(enc[3 + n + i], enc[2])]
    IN  IF Len(enc) # 3 + 2 * n \/ enc[1] # kid THEN Raise("ValueError")
        ELSE IF a # b THEN Raise("ValueError")
        ELSE Ret(a)

\* the key files on disk
Absent == [st |-> "absent"]
EmptyFile == [st |-> "empty"]
PrivatePemFile(kid) == [st |-> "private pem", kid |-> kid]
PublicPemFile(kid) == [st |-> "public pem", kid |-> kid]

load_private_key(privFileNow) ==
  IF privFileNow = Absent THEN Raise("FileNotFoundError")
  ELSE IF privFileNow.st # "private pem" THEN Raise("ValueError")
  ELSE Ret(PrivateKey(privFileNow.kid))

load_public_key(pubFileNow) ==
  IF pubFileNow = Absent THEN Raise("FileNotFoundError")
  ELSE IF pubFileNow.st # "public pem" THEN Raise("ValueError")
  ELSE Ret(PublicPem(pubFileNow.kid))

\* ---------------------------------------------------------------------------
\* AES-CBC + HMAC-SHA256 (Encrypt-then-MAC), MAC over (iv || ciphertext).
\* key and iv are the two os.urandom draws.
\* ---------------------------------------------------------------------------
encrypt_aes_etm(plaintext, key, iv) ==
  LET ct == AesCbcEncrypt(key, iv,
                          pkcs7_pad(utf8_encode(plaintext), AES_BLOCK)).v
      mac == hmac_sha256(key, iv \o ct)
  IN  [ciphertext_b64 |-> b64e(ct),
       iv_b64 |-> b64e(iv),
       key_b64 |-> b64e(key),
       mac_b64 |-> b64e(mac)]

\* The value returned is ret; steps lists the stages the call went through
\* and log is the line it printed.
DecryptOutcome(ret, steps, log) == [ret |-> ret, steps |-> steps, log |-> log]

DecryptAfterMac(key, iv, ct, steps) ==
  LET padded == AesCbcDecrypt(key, iv, ct) IN
  IF ~padded.ok
    THEN DecryptOutcome(NoneVal, steps \o <<"aes">>, "decryption failed")
  ELSE
    LET unp == pkcs7_unpad(padded.v, AES_BLOCK) IN
    IF ~unp.ok
      THEN DecryptOutcome(NoneVal, steps \o <<"aes", "unpad">>,
                          "decryption failed")
    ELSE
      LET pt == utf8_decode(unp.v) IN
      IF ~pt.ok
        THEN DecryptOutcome(NoneVal, steps \o <<"aes", "unpad", "utf8">>,
                            "decryption failed")
        ELSE DecryptOutcome(Some(pt.v), steps \o <<"aes", "unpad", "utf8">>,
                            "")

\* variant: the MAC is never compared
decrypt_aes_etm_unchecked(ciphertext_b64, iv_b64, mac_b64, key_b64) ==
  LET key == b64d(key_b64)
      iv == b64d(iv_b64)
      ct == b64d(ciphertext_b64)
      mac_expected == b64d(mac_b64)
  IN
  IF ~key.ok \/ ~iv.ok \/ ~ct.ok \/ ~mac_expected.ok
    THEN DecryptOutcome(NoneVal, <<"b64d">>, "decryption failed")
    ELSE DecryptAfterMac(key.v, iv.v, ct.v, <<"b64d", "hmac">>)

\* variant: decrypts and unpads first, compares the MAC afterwards
decrypt_aes_etm_decrypt_first(ciphertext_b64, iv_b64, mac_b64, key_b64) ==
  LET key == b64d(key_b64)
      iv == b64d(iv_b64)
      ct == b64d(ciphertext_b64)
      mac_expected == b64d(mac_b64)
  IN
  IF ~key.ok \/ ~iv.ok \/ ~ct.ok \/ ~mac_expected.ok
    THEN DecryptOutcome(NoneVal, <<"b64d">>, "decryption failed")
  ELSE
    LET dec == DecryptAfterMac(key.v, iv.v, ct.v, <<"b64d">>) IN
    IF dec.ret = NoneVal THEN dec
    ELSE IF hmac_sha256(key.v, iv.v \o ct.v) # mac_expected.v
      THEN DecryptOutcome(NoneVal, dec.steps \o <<"hmac", "compare">>,
                          "mac validation failed")
      ELSE DecryptOutcome(dec.ret, dec.steps \o <<"hmac", "compare">>, "")

decrypt_aes_etm(ciphertext_b64, iv_b64, mac_b64, key_b64) ==
  LET key == b64d(key_b64)
      iv == b64d(iv_b64)
      ct == b64d(ciphertext_b64)
      mac_expected == b64d(mac_b64)
  IN
  IF ~key.ok \/ ~iv.ok \/ ~ct.ok \/ ~mac_expected.ok
    THEN DecryptOutcome(NoneVal, <<"b64d">>, "decryption failed")
  ELSE
    LET mac_computed == hmac_sha256(key.v, iv.v \o ct.v) IN
    IF mac_computed # mac_expected.v
      THEN DecryptOutcome(NoneVal, <<"b64d", "hmac", "compare">>,
                          "mac validation failed")
      ELSE DecryptAfterMac(key.v, iv.v, ct.v, <<"b64d", "hmac", "compare">>)

\* ---------------------------------------------------------------------------
\* RSA-OAEP wrap / unwrap of a base64 payload
\* ---------------------------------------------------------------------------
rsa_encrypt_b64(data_b64, public_key_pem, seed) ==
  LET pub == load_pem_public_key(public_key_pem) IN
  IF ~pub.ok THEN pub
  ELSE
    LET raw == b64d(data_b64) IN
    IF ~raw.ok THEN raw
    ELSE
      LET enc == OaepEncrypt(raw.v, pub.v, seed) IN
      IF ~enc.ok THEN enc ELSE Ret(b64e(enc.v))

\* variant: the unwrapped bytes are returned in the URL-safe, unpadded form
rsa_decrypt_to_b64_urlsafe(encrypted_b64, private_key, privFileNow) ==
  LET loaded == IF private_key = NoKey THEN load_private_key(privFileNow)
                ELSE Ret(private_key)
  IN
  IF ~loaded.ok THEN loaded
  ELSE
    LET enc == b64d(encrypted_b64) IN
    IF ~enc.ok THEN enc
    ELSE
      LET raw == OaepDecrypt(enc.v, loaded.v.kid) IN
      IF ~raw.ok THEN raw ELSE Ret(b64e_urlsafe_nopad(raw.v))

\* variant: a failed OAEP decryption is swallowed and an empty key returned
rsa_decrypt_to_b64_swallow(encrypted_b64, private_key, privFileNow) ==
  LET loaded == IF private_key = NoKey THEN load_private_key(privFileNow)
                ELSE Ret(private_key)
  IN
  IF ~loaded.ok THEN loaded
  ELSE
    LET enc == b64d(encrypted_b64) IN
    IF ~enc.ok THEN enc
    ELSE
      LET raw == OaepDecrypt(enc.v, loaded.v.kid) IN
      IF ~raw.ok THEN Ret(<<>>) ELSE Ret(b64e(raw.v))

rsa_decrypt_to_b64(encrypted_b64, private_key, privFileNow) ==
  LET loaded == IF private_key = NoKey THEN load_private_key(privFileNow)
                ELSE Ret(private_key)
  IN
  IF ~loaded.ok THEN loaded
  ELSE
    LET enc == b64d(encrypted_b64) IN
    IF ~enc.ok THEN enc
    ELSE
      LET raw == OaepDecrypt(enc.v, loaded.v.kid) IN
      IF ~raw.ok THEN raw ELSE Ret(b64e(raw.v))

\* ---------------------------------------------------------------------------
\* payload helpers
\* ---------------------------------------------------------------------------
\* variant: each wrap is made under the other party's public key
build_ws_payload_swapped(plaintext, sender_public_key_pem, receiver_public_key_pem, key, iv, seedR, seedS) ==
  LET bundle == encrypt_aes_etm(plaintext, key, iv)
      enc_for_receiver ==
        rsa_encrypt_b64(bundle.key_b64, sender_public_key_pem, seedR)
      enc_for_sender ==
        rsa_encrypt_b64(bundle.key_b64, receiver_public_key_pem, seedS)
  IN
  IF ~enc_for_receiver.ok THEN enc_for_receiver
  ELSE IF ~enc_for_sender.ok THEN enc_for_sender
  ELSE Ret([encrypted_message |-> bundle.ciphertext_b64,
            iv |-> bundle.iv_b64,
            mac |-> bundle.mac_b64,
            encrypted_key_for_receiver |-> enc_for_receiver.v,
            encrypted_key_for_sender |-> enc_for_sender.v])

\* variant: the dict of encrypt_aes_etm is returned with the wraps added
build_ws_payload_with_key(plaintext, sender_public_key_pem, receiver_public_key_pem, key, iv, seedR, seedS) ==
  LET bundle == encrypt_aes_etm(plaintext, key, iv)
      enc_for_receiver ==
        rsa_encrypt_b64(bundle.key_b64, receiver_public_key_pem, seedR)
      enc_for_sender ==
        rsa_encrypt_b64(bundle.key_b64, sender_public_key_pem, seedS)
  IN
  IF ~enc_for_receiver.ok THEN enc_for_receiver
  ELSE IF ~enc_for_sender.ok THEN enc_for_sender
  ELSE Ret([encrypted_message |-> bundle.ciphertext_b64,
            iv |-> bundle.iv_b64,
            mac |-> bundle.mac_b64,
            key_b64 |-> bundle.key_b64,
            encrypted_key_for_receiver |-> enc_for_receiver.v,
            encrypted_key_for_sender |-> enc_for_sender.v])

build_ws_payload_for_relay(plaintext, sender_public_key_pem, receiver_public_key_pem, key, iv, seedR, seedS) ==
  LET bundle == encrypt_aes_etm(plaintext, key, iv)
      enc_for_receiver ==
        rsa_encrypt_b64(bundle.key_b64, receiver_public_key_pem, seedR)
      enc_for_sender ==
        rsa_encrypt_b64(bundle.key_b64, sender_public_key_pem, seedS)
  IN
  IF ~enc_for_receiver.ok THEN enc_for_receiver
  ELSE IF ~enc_for_sender.ok THEN enc_for_sender
  ELSE Ret([encrypted_message |-> bundle.ciphertext_b64,
            iv |-> bundle.iv_b64,
            mac |-> bundle.mac_b64,
            encrypted_key_for_receiver |-> enc_for_receiver.v,
            encrypted_key_for_sender |-> enc_for_sender.v])

\* the wrap the debug helper picks: the first truthy field in its order
\* variant: the names are looked at in the opposite order
WrapOrder_reversed ==
  <<"encrypted_key", "encrypted_key_for_sender",
    "encrypted_key_for_receiver", "encrypted_key_for_me">>

WrapOrder ==
  <<"encrypted_key_for_me", "encrypted_key_for_receiver",
    "encrypted_key_for_sender", "encrypted_key">>

RECURSIVE PickWrap(_, _)
PickWrap(payload, i) ==
  IF i > Len(WrapOrder) THEN NoneVal
  ELSE IF Truthy(payload, WrapOrder[i]) THEN Some(payload[WrapOrder[i]])
  ELSE PickWrap(payload, i + 1)

\* the body of the try block
DebugDecryptBody(payload, privFileNow) ==
  LET wrap == PickWrap(payload, 1) IN
  IF wrap = NoneVal THEN Ret(NoneVal)
  ELSE
    LET key_b64 == rsa_decrypt_to_b64(wrap.v, NoKey, privFileNow) IN
    IF ~key_b64.ok THEN key_b64
    ELSE IF ~({"encrypted_message", "iv", "mac"} \subseteq DOMAIN payload)
      THEN Raise("KeyError")
    ELSE Ret(decrypt_aes_etm(payload.encrypted_message, payload.iv,
                             payload.mac, key_b64.v).ret)

\* variant: no try / except around the body
server_debug_decrypt_unguarded(payload, privFileNow) ==
  DebugDecryptBody(payload, privFileNow)

server_debug_decrypt_if_addressed_to_server(payload, privFileNow) ==
  LET body == DebugDecryptBody(payload, privFileNow) IN
  IF body.ok THEN body ELSE Ret(NoneVal)

\* ---------------------------------------------------------------------------
\* inputs
\* ---------------------------------------------------------------------------
\* plaintexts span 0..MaxBlocks whole blocks, with and without one more
\* character, in ASCII and with two- and three-byte characters mixed in
MaxBlocks == 1

AsciiText(n) == [i \in 1..n |-> 97 + (i % 26)]
UnicodeText(n) ==
  [i \in 1..n |-> IF i % 3 = 1 THEN 233 ELSE IF i % 3 = 2 THEN 8364
                  ELSE 97 + (i % 26)]

PlainLens == UNION {{AES_BLOCK * k, AES_BLOCK * k + 1} : k \in 0..MaxBlocks}
Plaintexts == {AsciiText(n) : n \in PlainLens}
                \cup {UnicodeText(n) : n \in PlainLens}

\* the values the random sources may return in one run: the AES key and iv
\* from os.urandom, the OAEP seeds of the two wraps
ZeroBytes(n) == [i \in 1..n |-> 0]
PatternBytes(n, m) == [i \in 1..n |-> (m * i + 251) % 256]
Draws ==
  {[key |-> ZeroBytes(AES_KEY_SIZE), iv |-> ZeroBytes(AES_IV_SIZE),
    seedR |-> 60, seedS |-> 90],
   [key |-> PatternBytes(AES_KEY_SIZE, 7), iv |-> PatternBytes(AES_IV_SIZE, 29),
    seedR |-> 165, seedS |-> 165]}

FlipBit(x, k) == IF Bit(x, k) = 1 THEN x - Pow2(k) ELSE x + Pow2(k)

\* ---------------------------------------------------------------------------
\* state
\* ---------------------------------------------------------------------------
VARIABLES
  plain,     \* the plaintext of this run's encrypt / build call
  urandom,   \* the random bytes drawn in this run
  pems,      \* the public key PEMs of the sender and the receiver
  args,      \* the arguments of a helper that is called on its own
  bundle,    \* the fields the caller holds: field name -> text
  rawKey,    \* key_b64 of the last encrypt call
  tamper,    \* what was done to bundle since it was produced
  result,    \* the last call made on bundle and its outcome
  privFile,  \* private_key.pem
  pubFile,   \* public_key.pem
  pc,        \* where each server process is in its start-up
  mem,       \* the id of the key pair a process generated and holds in memory
  gens,      \* the number of key pairs generated so far
  genDone,   \* the number of generate_rsa_keys calls that returned
  loaded,    \* what load_private_key last returned in each process
  messages,  \* the ChatMessage table, in order of creation
  conn,      \* each WebSocket connection: its state and its user
  groups,    \* the channel layer: room of a user -> connections in it
  chanq,     \* the channel layer: events waiting for each connection
  sent,      \* the frames each connection has sent to its client
  lastRx,    \* the last frame or request handled and what came of it
  bookings,      \* the Booking table, in order of creation
  balances,      \* esc_balance of each user
  transactions,  \* the Transaction table, in order of creation
  activities,    \* the WalletActivity table, in order of creation
  lastReq,       \* the last bookings / wallet request answered
  reqs           \* the requests in progress: what each handler has read or done

inputVars == <<plain, urandom, pems, args>>
cryptoVars == <<plain, urandom, pems, args, bundle, rawKey, tamper, result>>
fileVars == <<privFile, pubFile>>
bootVars == <<pc, mem, gens, genDone, loaded>>
relayVars == <<messages, conn, groups, chanq, sent, lastRx>>
marketVars == <<bookings, balances, transactions, activities, lastReq, reqs>>
vars == <<plain, urandom, pems, args, bundle, rawKey, tamper, result,
          privFile, pubFile, pc, mem, gens, genDone, loaded, messages, conn,
          groups, chanq, sent, lastRx,
          bookings, balances, transactions, activities, lastReq, reqs>>

\* the server processes
NProcs == 2
Procs == 1..NProcs

\* the users in the database and the WebSocket connections
NUsers == 2
Users == 1..NUsers
NConns == 2
Conns == 1..NConns

NoRx == [via |-> "none", n |-> 0]

\* no connection, no message
ServicePrice == 2

StartBalance == 2 * ServicePrice

NoReq == [op |-> "none"]

MarketIdle ==
  /\ bookings = <<>>
  /\ balances = [u \in Users |-> StartBalance]
  /\ transactions = <<>>
  /\ activities = <<>>
  /\ lastReq = NoReq
  /\ reqs = <<>>

RelayIdle ==
  /\ messages = <<>>
  /\ conn = [c \in Conns |-> [st |-> "new", user |-> 0]]
  /\ groups = [u \in Users |-> {}]
  /\ chanq = [c \in Conns |-> <<>>]
  /\ sent = [c \in Conns |-> <<>>]
  /\ lastRx = NoRx

\* all processes are up and none has generated a key
BootIdle ==
  /\ pc = [p \in Procs |-> "up"]
  /\ mem = [p \in Procs |-> 0]
  /\ gens = 0
  /\ genDone = 0
  /\ loaded = [p \in Procs |-> NoKey]

NoArgs == [fn |-> "none"]
EmptyDict == [k \in {} |-> <<>>]
NoTamper == [kind |-> "none"]
NoResult == [op |-> "none"]

NoPems == [sender |-> GarbagePem, receiver |-> GarbagePem]

InitSym ==
  /\ plain \in Plaintexts
  /\ urandom \in Draws
  /\ pems = NoPems
  /\ args = NoArgs
  /\ bundle = EmptyDict
  /\ rawKey = <<>>
  /\ tamper = NoTamper
  /\ result = NoResult
  /\ privFile = Absent
  /\ pubFile = Absent
  /\ BootIdle
  /\ RelayIdle
  /\ MarketIdle

\* ---------------------------------------------------------------------------
\* the symmetric envelope: encrypt, a bit changed in transit, decrypt
\* ---------------------------------------------------------------------------
Encrypt ==
  /\ result = NoResult
  /\ bundle' = encrypt_aes_etm(plain, urandom.key, urandom.iv)
  /\ rawKey' = bundle'.key_b64
  /\ result' = [op |-> "encrypt"]
  /\ UNCHANGED <<inputVars, tamper, fileVars, bootVars, relayVars, marketVars>>

TamperFields == {"ciphertext_b64", "iv_b64", "mac_b64"}

IsFresh(f) ==
  /\ f \in DOMAIN bundle
  /\ tamper = NoTamper

\* one bit of the bytes a field encodes is changed
FlipByteBit(f) ==
  /\ IsFresh(f)
  /\ LET raw == b64d(bundle[f]).v IN
     \E pos \in 1..Len(raw), bit \in 0..7 :
       /\ bundle' = [bundle EXCEPT ![f] =
                       b64e([raw EXCEPT ![pos] = FlipBit(raw[pos], bit)])]
       /\ tamper' = [kind |-> "bytes", field |-> f, pos |-> pos,
                     bit |-> bit]
  /\ result' = [op |-> "tamper"]
  /\ UNCHANGED <<inputVars, rawKey, fileVars, bootVars, relayVars, marketVars>>

\* one bit of the base64 text of a field is changed
FlipTextBit(f) ==
  /\ IsFresh(f)
  /\ \E pos \in 1..Len(bundle[f]), bit \in 0..7 :
       /\ bundle' = [bundle EXCEPT ![f][pos] = FlipBit(bundle[f][pos], bit)]
       /\ tamper' = [kind |-> "text", field |-> f, pos |-> pos, bit |-> bit]
  /\ result' = [op |-> "tamper"]
  /\ UNCHANGED <<inputVars, rawKey, fileVars, bootVars, relayVars, marketVars>>

Decrypt ==
  /\ (TamperFields \cup {"key_b64"}) \subseteq DOMAIN bundle
  /\ result.op # "decrypt"
  /\ result' = [op |-> "decrypt",
                out |-> decrypt_aes_etm(bundle.ciphertext_b64, bundle.iv_b64,
                                        bundle.mac_b64, bundle.key_b64)]
  /\ UNCHANGED <<inputVars, bundle, rawKey, tamper, fileVars, bootVars, relayVars, marketVars>>

NextSym ==
  \/ Encrypt
  \/ \E f \in TamperFields \cap DOMAIN bundle : FlipByteBit(f)
  \/ \E f \in TamperFields \cap DOMAIN bundle : FlipTextBit(f)
  \/ Decrypt

SpecSym == InitSym /\ [][NextSym]_vars

\* ---------------------------------------------------------------------------
\* C1: decrypting the four fields encrypt returned, unchanged, returns
\* exactly the plaintext that was encrypted
\* ---------------------------------------------------------------------------
C1_RoundTrip ==
  (result.op = "decrypt" /\ tamper = NoTamper)
    => result.out.ret = Some(plain)

C1_Witness ==
  /\ result.op = "decrypt"
  /\ tamper = NoTamper
  /\ Len(utf8_encode(plain)) > AES_BLOCK
  /\ \E i \in 1..Len(plain) : plain[i] > 127
  /\ result.out.ret = Some(plain)

\* ---------------------------------------------------------------------------
\* C2: after any single bit of the ciphertext, iv or mac field of a bundle
\* from encrypt was changed, decrypt with the correct key fails at the MAC
\* check and returns no plaintext
\* ---------------------------------------------------------------------------
MacRejected ==
  /\ result.out.ret = NoneVal
  /\ result.out.log = "mac validation failed"

C2_TamperDetected_AsClaimed ==
  (result.op = "decrypt" /\ tamper # NoTamper) => MacRejected

\* as amended: a bit changed in the bytes a field encodes is rejected at the
\* MAC check; a bit changed in the base64 text of a field is rejected (at
\* the MAC check or while decoding) unless the text still decodes to the
\* same bytes, and then decrypt returns the original plaintext
\* the text of the changed field as encrypt produced it: the changed bit put
\* back
Produced ==
  [bundle[tamper.field] EXCEPT ![tamper.pos] = FlipBit(@, tamper.bit)]

C2_TamperDetected ==
  (result.op = "decrypt" /\ tamper # NoTamper) =>
    IF tamper.kind = "bytes" THEN MacRejected
    ELSE IF b64d(bundle[tamper.field]) = b64d(Produced)
      THEN result.out.ret = Some(plain)
      ELSE /\ result.out.ret = NoneVal
           /\ result.out.log \in {"mac validation failed", "decryption failed"}

C2_Witness ==
  /\ result.op = "decrypt"
  /\ tamper.kind = "bytes"
  /\ tamper.field = "mac_b64"
  /\ MacRejected

\* ---------------------------------------------------------------------------
\* C3: decrypt recomputes and compares the HMAC over iv || ciphertext before
\* any AES decryption or unpadding; when the MAC does not match it returns
\* nothing and never runs the AES-CBC decryption or the PKCS#7 unpad
\* ---------------------------------------------------------------------------
StepSet(steps) == {steps[i] : i \in 1..Len(steps)}

FieldsDecode ==
  \A f \in TamperFields \cup {"key_b64"} : b64d(bundle[f]).ok

MacMatches ==
  /\ FieldsDecode
  /\ hmac_sha256(b64d(bundle.key_b64).v,
                 b64d(bundle.iv_b64).v \o b64d(bundle.ciphertext_b64).v)
       = b64d(bundle.mac_b64).v

C3_MacBeforeDecrypt ==
  result.op = "decrypt" =>
    LET matches == MacMatches IN
    /\ "aes" \in StepSet(result.out.steps) =>
         /\ SubSeq(result.out.steps, 1, 3) = <<"b64d", "hmac", "compare">>
         /\ matches
    /\ ~matches =>
         /\ result.out.ret = NoneVal
         /\ StepSet(result.out.steps) \cap {"aes", "unpad", "utf8"} = {}

C3_Witness ==
  /\ result.op = "decrypt"
  /\ FieldsDecode
  /\ ~MacMatches
  /\ result.out.steps = <<"b64d", "hmac", "compare">>
  /\ result.out.ret = NoneVal

\* ---------------------------------------------------------------------------
\* key wrap: a caller wraps a key text under a public key, the wrap may be
\* changed in transit, a holder of some private key unwraps it
\* ---------------------------------------------------------------------------
NKeyPairs == 2
KeyIds == 1..NKeyPairs
Pems == {PublicPem(k) : k \in KeyIds} \cup {GarbagePem}

\* the base64 texts of one 32-byte key that b64d accepts: canonical,
\* URL-safe without padding, and canonical broken over two lines
WithNewline(t) == SubSeq(t, 1, 20) \o <<10>> \o SubSeq(t, 21, Len(t))
TextForms(key) == {b64e(key), b64e_urlsafe_nopad(key), WithNewline(b64e(key))}

InitWrap ==
  /\ plain = <<>>
  /\ urandom \in Draws
  /\ pems \in {[sender |-> GarbagePem, receiver |-> r] : r \in Pems}
  /\ args = NoArgs
  /\ bundle = EmptyDict
  /\ rawKey \in TextForms(urandom.key)
  /\ tamper = NoTamper
  /\ result = NoResult
  /\ privFile = Absent
  /\ pubFile = Absent
  /\ BootIdle
  /\ RelayIdle
  /\ MarketIdle

WrapKey ==
  /\ result = NoResult
  /\ LET w == rsa_encrypt_b64(rawKey, pems.receiver, urandom.seedR) IN
     /\ bundle' = IF w.ok THEN [encrypted_key |-> w.v] ELSE bundle
     /\ result' = [op |-> "wrap", out |-> w]
  /\ UNCHANGED <<inputVars, rawKey, tamper, fileVars, bootVars, relayVars, marketVars>>

Unwrap(kid) ==
  /\ "encrypted_key" \in DOMAIN bundle
  /\ result.op \in {"wrap", "tamper"}
  /\ result' = [op |-> "unwrap", kid |-> kid,
                out |-> rsa_decrypt_to_b64(bundle.encrypted_key,
                                           PrivateKey(kid), privFile)]
  /\ UNCHANGED <<inputVars, bundle, rawKey, tamper, fileVars, bootVars, relayVars, marketVars>>

WrapFields == {"encrypted_key"}

NextWrap ==
  \/ WrapKey
  \/ \E f \in WrapFields \cap DOMAIN bundle : FlipByteBit(f)
  \/ \E f \in WrapFields \cap DOMAIN bundle : FlipTextBit(f)
  \/ \E kid \in KeyIds : Unwrap(kid)

SpecWrap == InitWrap /\ [][NextWrap]_vars

\* ---------------------------------------------------------------------------
\* C4: unwrapping, with the matching private key, the wrap of a 32-byte key
\* given as a base64 text returns exactly the text that was passed in
\* ---------------------------------------------------------------------------
MatchingUnwrap ==
  /\ result.op = "unwrap"
  /\ tamper = NoTamper
  /\ pems.receiver = PublicPem(result.kid)

C4_WrapRoundTrip_AsClaimed ==
  MatchingUnwrap => result.out = Ret(rawKey)

\* as amended: it returns the canonical base64 text of the key's 32 bytes,
\* which is the text passed in whenever that text was canonical
C4_WrapRoundTrip ==
  MatchingUnwrap =>
    /\ Len(b64d(rawKey).v) = AES_KEY_SIZE
    /\ result.out = Ret(b64e(b64d(rawKey).v))
    /\ rawKey = b64e(urandom.key) => result.out = Ret(rawKey)

C4_Witness ==
  /\ MatchingUnwrap
  /\ rawKey = b64e(urandom.key)
  /\ result.out = Ret(rawKey)

\* ---------------------------------------------------------------------------
\* C6: unwrapping with a private key that does not match the public key of
\* the wrap, or unwrapping a corrupted wrap, raises and returns no key
\* ---------------------------------------------------------------------------
WrapProduced == rsa_encrypt_b64(rawKey, pems.receiver, urandom.seedR).v

WrapCorrupted ==
  /\ tamper # NoTamper
  /\ b64d(bundle.encrypted_key) # b64d(WrapProduced)

C6_WrongKeyFails ==
  (result.op = "unwrap"
     /\ (pems.receiver # PublicPem(result.kid) \/ WrapCorrupted))
    => /\ ~result.out.ok
       /\ result.out.exc \in {"ValueError", "binascii.Error"}

C6_Witness ==
  /\ result.op = "unwrap"
  /\ tamper = NoTamper
  /\ pems.receiver \in {PublicPem(k) : k \in KeyIds \ {result.kid}}
  /\ result.out = Raise("ValueError")

C6_WitnessCorrupted ==
  /\ result.op = "unwrap"
  /\ WrapCorrupted
  /\ pems.receiver = PublicPem(result.kid)
  /\ ~result.out.ok

\* ---------------------------------------------------------------------------
\* the envelope: built for a sender and a receiver, opened by a holder of a
\* private key, or handed (possibly damaged) to the debug helper of a
\* service whose key file may have been lost
\* ---------------------------------------------------------------------------
EnvPlaintexts == {AsciiText(0), UnicodeText(AES_BLOCK * MaxBlocks + 1)}

InitEnv ==
  /\ plain \in EnvPlaintexts
  /\ urandom \in Draws
  /\ pems \in [sender : Pems, receiver : Pems]
  /\ args = NoArgs
  /\ bundle = EmptyDict
  /\ rawKey = <<>>
  /\ tamper = NoTamper
  /\ result = NoResult
  /\ \E k \in KeyIds : /\ privFile = PrivatePemFile(k)
                       /\ pubFile = PublicPemFile(k)
  /\ BootIdle
  /\ RelayIdle
  /\ MarketIdle

BuildEnvelope ==
  /\ result = NoResult
  /\ LET out == build_ws_payload_for_relay(plain, pems.sender, pems.receiver,
                  urandom.key, urandom.iv, urandom.seedR, urandom.seedS)
     IN  /\ bundle' = IF out.ok THEN out.v ELSE bundle
         /\ result' = [op |-> "build", out |-> out]
  /\ rawKey' = encrypt_aes_etm(plain, urandom.key, urandom.iv).key_b64
  /\ UNCHANGED <<inputVars, tamper, fileVars, bootVars, relayVars, marketVars>>

\* the texts a damaged field may hold: undecodable, not ASCII, empty, and
\* well-formed base64 of other bytes
GarbageTexts == {<<65>>, <<200>>, <<>>, b64e(<<1, 2, 3>>)}

Built == result.op = "build" /\ result.out.ok

DropField(f) ==
  /\ Built
  /\ tamper = NoTamper
  /\ f \in DOMAIN bundle
  /\ bundle' = [g \in DOMAIN bundle \ {f} |-> bundle[g]]
  /\ tamper' = [kind |-> "drop", field |-> f]
  /\ UNCHANGED <<inputVars, rawKey, result, fileVars, bootVars, relayVars, marketVars>>

GarbleField(f, t) ==
  /\ Built
  /\ tamper = NoTamper
  /\ f \in DOMAIN bundle
  /\ bundle' = [bundle EXCEPT ![f] = t]
  /\ tamper' = [kind |-> "garble", field |-> f]
  /\ UNCHANGED <<inputVars, rawKey, result, fileVars, bootVars, relayVars, marketVars>>

\* a wrap is moved under one of the other names the debug helper looks at
RenameWrap(f, g) ==
  /\ Built
  /\ tamper = NoTamper
  /\ f \in DOMAIN bundle
  /\ g \notin DOMAIN bundle
  /\ bundle' = [h \in (DOMAIN bundle \ {f}) \cup {g} |->
                  IF h = g THEN bundle[f] ELSE bundle[h]]
  /\ tamper' = [kind |-> "rename", field |-> f]
  /\ UNCHANGED <<inputVars, rawKey, result, fileVars, bootVars, relayVars, marketVars>>

\* the private key file disappears or is left empty
KeyFileLost(st) ==
  /\ privFile.st = "private pem"
  /\ result.op \in {"none", "build"}
  /\ privFile' = st
  /\ UNCHANGED <<inputVars, bundle, rawKey, tamper, result, pubFile, bootVars, relayVars, marketVars>>

PartyOf(f) ==
  IF f = "encrypted_key_for_receiver" THEN pems.receiver ELSE pems.sender

\* a client unwraps its wrap with its private key and decrypts with the key
Open(f, kid) ==
  /\ Built
  /\ tamper = NoTamper
  /\ LET key == rsa_decrypt_to_b64(bundle[f], PrivateKey(kid), privFile) IN
     result' = [op |-> "open", field |-> f, kid |-> kid, key |-> key,
                out |-> IF key.ok
                          THEN decrypt_aes_etm(bundle.encrypted_message,
                                 bundle.iv, bundle.mac, key.v).ret
                          ELSE NoneVal]
  /\ UNCHANGED <<inputVars, bundle, rawKey, tamper, fileVars, bootVars, relayVars, marketVars>>

TrySelfDecrypt ==
  /\ result.op \in {"none", "build"}
  /\ result' = [op |-> "self_decrypt",
                out |-> server_debug_decrypt_if_addressed_to_server(
                          bundle, privFile)]
  /\ UNCHANGED <<inputVars, bundle, rawKey, tamper, fileVars, bootVars, relayVars, marketVars>>

EnvWraps == {"encrypted_key_for_receiver", "encrypted_key_for_sender"}
EnvFields == {"encrypted_message", "iv", "mac"} \cup EnvWraps
WrapAliases == {"encrypted_key_for_me", "encrypted_key"}

\* the bundle is handed on without any wrap
DropWraps ==
  /\ Built
  /\ tamper = NoTamper
  /\ bundle' = [g \in DOMAIN bundle \ EnvWraps |-> bundle[g]]
  /\ tamper' = [kind |-> "drop", field |-> "wraps"]
  /\ UNCHANGED <<inputVars, rawKey, result, fileVars, bootVars, relayVars, marketVars>>

NextEnv ==
  \/ BuildEnvelope
  \/ \E f \in EnvFields : DropField(f)
  \/ DropWraps
  \/ \E f \in EnvFields, t \in GarbageTexts : GarbleField(f, t)
  \/ \E f \in EnvWraps, g \in WrapAliases : RenameWrap(f, g)
  \/ \E st \in {Absent, EmptyFile} : KeyFileLost(st)
  \/ \E f \in EnvWraps, kid \in KeyIds : Open(f, kid)
  \/ TrySelfDecrypt

SpecEnv == InitEnv /\ [][NextEnv]_vars

\* ---------------------------------------------------------------------------
\* C5: the two wraps of an envelope hold the same symmetric key: the sender's
\* private key opens the sender wrap, the receiver's private key opens the
\* receiver wrap, both yield the key the message was encrypted with, and
\* decrypt with it recovers the plaintext
\* ---------------------------------------------------------------------------
OpenedByOwner ==
  /\ result.op = "open"
  /\ PartyOf(result.field) = PublicPem(result.kid)

C5_BothWrapsOpen ==
  OpenedByOwner =>
    /\ result.key = Ret(rawKey)
    /\ result.out = Some(plain)

C5_Witness ==
  /\ OpenedByOwner
  /\ result.field = "encrypted_key_for_sender"
  /\ pems.sender # pems.receiver
  /\ pems.receiver # GarbagePem
  /\ Len(plain) > AES_BLOCK
  /\ result.key = Ret(rawKey)
  /\ result.out = Some(plain)

\* ---------------------------------------------------------------------------
\* C7: the bundle build_envelope returns has exactly the fields
\* encrypted_message, iv, mac, encrypted_key_for_receiver and
\* encrypted_key_for_sender, and key_b64 occurs in none of them
\* ---------------------------------------------------------------------------
Occurs(t, u) ==
  \E i \in 0..(Len(u) - Len(t)) : SubSeq(u, i + 1, i + Len(t)) = t

C7_NoRawKeyInBundle ==
  Built =>
    /\ DOMAIN result.out.v = EnvFields
    /\ \A f \in DOMAIN result.out.v : ~Occurs(rawKey, result.out.v[f])

C7_Witness ==
  /\ Built
  /\ Len(rawKey) > 0
  /\ DOMAIN result.out.v = EnvFields

\* ---------------------------------------------------------------------------
\* C9: try_self_decrypt never raises: for every bundle and every state of
\* the service's private key file it returns a plaintext or None
\* ---------------------------------------------------------------------------
C9_SelfDecryptNeverRaises ==
  result.op = "self_decrypt" =>
    /\ result.out.ok
    /\ result.out.v = NoneVal \/ result.out.v.none = FALSE

\* an exception was raised inside the helper and turned into None
C9_Witness ==
  /\ result.op = "self_decrypt"
  /\ ~DebugDecryptBody(bundle, privFile).ok
  /\ result.out = Ret(NoneVal)

C9_WitnessPlaintext ==
  /\ result.op = "self_decrypt"
  /\ result.out = Ret(Some(plain))

\* ---------------------------------------------------------------------------
\* cold start: importing encryption_utils generates the service key pair
\* when one of the two files is missing.  generate_rsa_keys opens and writes
\* private_key.pem, then opens and writes public_key.pem; a process may be
\* killed between any two of these steps.
\* ---------------------------------------------------------------------------
MaxGens == 3

NoDraw == [key |-> <<>>, iv |-> <<>>, seedR |-> 0, seedS |-> 0]

CryptoIdle ==
  /\ plain = <<>>
  /\ urandom = NoDraw
  /\ pems = NoPems
  /\ args = NoArgs
  /\ bundle = EmptyDict
  /\ rawKey = <<>>
  /\ tamper = NoTamper
  /\ result = NoResult

InitBoot ==
  /\ CryptoIdle
  /\ privFile = Absent
  /\ pubFile = Absent
  /\ pc = [p \in Procs |-> "down"]
  /\ mem = [p \in Procs |-> 0]
  /\ gens = 0
  /\ genDone = 0
  /\ loaded = [p \in Procs |-> NoKey]
  /\ RelayIdle
  /\ MarketIdle

\* os.path.exists
Exists(file) == file # Absent

\* variant: the key pair is generated on every start
NeedsKeys_always(privFileNow, pubFileNow) == TRUE

\* the condition of the module-level bootstrap
NeedsKeys(privFileNow, pubFileNow) ==
  ~Exists(privFileNow) \/ ~Exists(pubFileNow)

\* the process starts and the module is imported up to the condition
Boot(p) ==
  /\ pc[p] = "down"
  /\ IF NeedsKeys(privFile, pubFile)
       THEN /\ gens < MaxGens
            /\ gens' = gens + 1
            /\ mem' = [mem EXCEPT ![p] = gens + 1]
            /\ pc' = [pc EXCEPT ![p] = "open_priv"]
       ELSE /\ pc' = [pc EXCEPT ![p] = "up"]
            /\ UNCHANGED <<gens, mem>>
  /\ UNCHANGED <<cryptoVars, relayVars, fileVars, genDone, loaded, marketVars>>

OpenPriv(p) ==
  /\ pc[p] = "open_priv"
  /\ privFile' = EmptyFile
  /\ pc' = [pc EXCEPT ![p] = "write_priv"]
  /\ UNCHANGED <<cryptoVars, relayVars, pubFile, mem, gens, genDone, loaded, marketVars>>

WritePriv(p) ==
  /\ pc[p] = "write_priv"
  /\ privFile' = PrivatePemFile(mem[p])
  /\ pc' = [pc EXCEPT ![p] = "open_pub"]
  /\ UNCHANGED <<cryptoVars, relayVars, pubFile, mem, gens, genDone, loaded, marketVars>>

OpenPub(p) ==
  /\ pc[p] = "open_pub"
  /\ pubFile' = EmptyFile
  /\ pc' = [pc EXCEPT ![p] = "write_pub"]
  /\ UNCHANGED <<cryptoVars, relayVars, privFile, mem, gens, genDone, loaded, marketVars>>

WritePub(p) ==
  /\ pc[p] = "write_pub"
  /\ pubFile' = PublicPemFile(mem[p])
  /\ pc' = [pc EXCEPT ![p] = "up"]
  /\ genDone' = genDone + 1
  /\ UNCHANGED <<cryptoVars, relayVars, privFile, mem, gens, loaded, marketVars>>

\* the running process reads its private key, as rsa_decrypt_to_b64 does
LoadKey(p) ==
  /\ pc[p] = "up"
  /\ loaded' = [loaded EXCEPT ![p] = load_private_key(privFile)]
  /\ UNCHANGED <<cryptoVars, relayVars, fileVars, pc, mem, gens, genDone, marketVars>>

\* the process exits or is killed; what it held in memory is gone
Stop(p) ==
  /\ pc[p] # "down"
  /\ pc' = [pc EXCEPT ![p] = "down"]
  /\ mem' = [mem EXCEPT ![p] = 0]
  /\ loaded' = [loaded EXCEPT ![p] = NoKey]
  /\ UNCHANGED <<cryptoVars, relayVars, fileVars, gens, genDone, marketVars>>

Starting == {"open_priv", "write_priv", "open_pub", "write_pub"}

\* one process starts at a time
BootInTurn(p) ==
  /\ \A q \in Procs \ {p} : pc[q] \notin Starting
  /\ Boot(p)

NextBoot ==
  \/ \E p \in Procs : BootInTurn(p)
  \/ \E p \in Procs : OpenPriv(p)
  \/ \E p \in Procs : WritePriv(p)
  \/ \E p \in Procs : OpenPub(p)
  \/ \E p \in Procs : WritePub(p)
  \/ \E p \in Procs : LoadKey(p)
  \/ \E p \in Procs : Stop(p)

SpecBoot == InitBoot /\ [][NextBoot]_vars

\* ---------------------------------------------------------------------------
\* C10: over any sequence of process starts the key pair is generated at
\* most once: once a start has generated the pair, private_key.pem is never
\* written again and every process loads that same private key
\* ---------------------------------------------------------------------------
C10_GeneratedOnce ==
  /\ [](genDone <= 1)
  /\ [][genDone >= 1 => privFile' = privFile]_vars
  /\ [](genDone >= 1 =>
          \A p \in Procs :
            loaded[p] \in {NoKey, load_private_key(privFile)}
            /\ load_private_key(privFile).ok)

C10_Witness ==
  /\ genDone = 1
  /\ \E p \in Procs :
       /\ pc[p] = "up"
       /\ mem[p] = 0
       /\ loaded[p] = Ret(PrivateKey(privFile.kid))

\* ---------------------------------------------------------------------------
\* the relay: ChatConsumer (WebSocket) and the REST view send_message.
\* A JSON value that is missing, null or "" is the empty string here; field
\* values are opaque texts.
\* ---------------------------------------------------------------------------
MaxFrames == 2

\* variant: only the first name of a field is looked at
FirstNameOnly(a, b) == a

\* a or b, on JSON values
Or(a, b) == IF a # "" THEN a ELSE b

\* int(receiver_id) and the lookup of that user
IntOf(t) == IF t = "1" THEN Ret(1)
            ELSE IF t = "2" THEN Ret(2)
            ELSE IF t = "3" THEN Ret(3)
            ELSE IF t = "9" THEN Ret(9)
            ELSE Raise("ValueError")

BaseFrame ==
  [kind |-> "json", type |-> "", receiver_id |-> "1",
   encrypted_message |-> "ct", iv |-> "iv", mac |-> "mac",
   encrypted_key |-> "", encrypted_key_for_receiver |-> "",
   encrypted_key_sender |-> "", encrypted_key_for_sender |-> ""]

\* the ways a client names the two wraps
AliasCases ==
  {<<"", "wrB", "", "wsB">>, <<"wrA", "wrB", "wsA", "wsB">>,
   <<"wrA", "", "wsA", "">>}

UserTexts == {"1", "2", "3"}

GoodFrame == [BaseFrame EXCEPT !.encrypted_key = "wrA"]

\* a send to each user, and a send under each naming of the wraps
ValidFrames ==
  {[GoodFrame EXCEPT !.receiver_id = to] :
     to \in {t \in UserTexts : IntOf(t).v \in Users}}
  \cup
  {[BaseFrame EXCEPT !.encrypted_key = a[1],
                     !.encrypted_key_for_receiver = a[2],
                     !.encrypted_key_sender = a[3],
                     !.encrypted_key_for_sender = a[4]] : a \in AliasCases}

DefectFrames ==
  {[GoodFrame EXCEPT !.kind = "bad_json"],
   [GoodFrame EXCEPT !.type = "ping"],
   [GoodFrame EXCEPT !.type = "subscribe"],
   [GoodFrame EXCEPT !.receiver_id = ""],
   [GoodFrame EXCEPT !.encrypted_message = ""],
   [GoodFrame EXCEPT !.iv = ""],
   [GoodFrame EXCEPT !.mac = ""],
   [GoodFrame EXCEPT !.encrypted_key = "", !.encrypted_key_sender = "wsA"],
   [GoodFrame EXCEPT !.receiver_id = "abc"],
   [GoodFrame EXCEPT !.receiver_id = "9"]}

Frames == ValidFrames \cup DefectFrames

\* request.data of a POST: a parsed JSON object, whose "type" nobody reads
Requests == {data \in Frames : data.kind = "json" /\ data.type = ""}

\* a create that files each wrap under the other party
NewMessage_swapped(id, sender, receiver, enc_msg, iv, mac, enc_key_recv, enc_key_sender) ==
  [id |-> id, sender |-> sender, receiver |-> receiver,
   encrypted_message |-> enc_msg, iv |-> iv, mac |-> mac,
   encrypted_key_for_receiver |-> enc_key_sender,
   encrypted_key_for_sender |-> enc_key_recv,
   is_read |-> FALSE]

\* ChatMessage.objects.create(...) by either handler
NewMessage(id, sender, receiver, enc_msg, iv, mac, enc_key_recv, enc_key_sender) ==
  [id |-> id, sender |-> sender, receiver |-> receiver,
   encrypted_message |-> enc_msg, iv |-> iv, mac |-> mac,
   encrypted_key_for_receiver |-> enc_key_recv,
   encrypted_key_for_sender |-> enc_key_sender,
   is_read |-> FALSE]

\* the payload both handlers emit for a stored message
MessagePayload(m) ==
  [id |-> m.id, sender |-> m.sender,
   receiver |-> m.receiver,
   encrypted_message |-> m.encrypted_message, iv |-> m.iv, mac |-> m.mac,
   encrypted_key |-> m.encrypted_key_for_receiver,
   encrypted_key_sender |-> m.encrypted_key_for_sender,
   encrypted_key_for_receiver |-> m.encrypted_key_for_receiver,
   encrypted_key_for_sender |-> m.encrypted_key_for_sender,
   is_read |-> m.is_read]

\* variant: the error frame carries the message only
ErrorFrame_no_code(code, message) ==
  [type |-> "error", code |-> "", message |-> message]

ErrorFrame(code, message) ==
  [type |-> "error", code |-> code, message |-> message]

\* what receive decides for a frame of an authenticated user: the frame it
\* answers with and, for a chat send, the message it stores
ReceiveOutcome(user, data, id) ==
  IF data.kind = "bad_json"
    THEN [store |-> FALSE,
          reply |-> ErrorFrame("bad_json", "Invalid JSON payload.")]
  ELSE IF data.type = "ping" THEN [store |-> FALSE, reply |-> [type |-> "pong"]]
  ELSE IF data.type = "subscribe"
    THEN [store |-> FALSE, reply |-> [type |-> "subscribed", user_id |-> user]]
  ELSE
    LET receiver_id == data.receiver_id
        enc_msg == data.encrypted_message
        iv == data.iv
        mac == data.mac
        enc_key_recv == Or(data.encrypted_key, data.encrypted_key_for_receiver)
        enc_key_sender ==
          Or(data.encrypted_key_sender, data.encrypted_key_for_sender)
    IN
    IF \E v \in {receiver_id, enc_msg, iv, mac, enc_key_recv} : v = ""
      THEN [store |-> FALSE,
            reply |-> ErrorFrame("missing_fields", "Missing: ...")]
    ELSE IF ~IntOf(receiver_id).ok
      THEN [store |-> FALSE,
            reply |-> ErrorFrame("bad_field",
                                 "receiver_id must be an integer.")]
    ELSE IF IntOf(receiver_id).v \notin Users
      THEN [store |-> FALSE,
            reply |-> ErrorFrame("not_found", "Receiver not found.")]
    ELSE [store |-> TRUE,
          msg |-> NewMessage(id, user, IntOf(receiver_id).v, enc_msg, iv, mac,
                             enc_key_recv, enc_key_sender),
          reply |-> [type |-> "ack", ok |-> TRUE, message_id |-> id]]

\* variant: the event goes to every open connection
GroupSend_everyone(q, room, event) ==
  [c \in Conns |-> IF conn[c].st = "open" THEN Append(q[c], event) ELSE q[c]]

\* channel_layer.group_send(room, event)
GroupSend(q, room, event) ==
  [c \in Conns |-> IF c \in groups[room] THEN Append(q[c], event) ELSE q[c]]

ChatEvent(payload) == [type |-> "chat.message", message |-> payload]

\* ChatConsumer.connect: tokenUser is the user of a valid token, 0 otherwise.
\* Connections are numbered in the order they are opened.
Connect(c, tokenUser) ==
  /\ conn[c].st = "new"
  /\ \A d \in Conns : d < c => conn[d].st # "new"
  /\ IF tokenUser = 0
       THEN /\ conn' = [conn EXCEPT ![c] = [st |-> "closed", user |-> 0]]
            /\ sent' = [sent EXCEPT ![c] =
                          Append(@, [type |-> "close", code |-> 4401])]
            /\ UNCHANGED groups
       ELSE /\ conn' = [conn EXCEPT ![c] = [st |-> "open", user |-> tokenUser]]
            /\ groups' = [groups EXCEPT ![tokenUser] = @ \cup {c}]
            /\ UNCHANGED sent
  /\ UNCHANGED <<cryptoVars, fileVars, bootVars, messages, chanq, lastRx, marketVars>>

\* ChatConsumer.disconnect; the events still queued on the connection's
\* channel are never consumed
Disconnect(c) ==
  /\ conn[c].st = "open"
  /\ conn' = [conn EXCEPT ![c].st = "closed"]
  /\ groups' = [groups EXCEPT ![conn[c].user] = @ \ {c}]
  /\ chanq' = [chanq EXCEPT ![c] = <<>>]
  /\ UNCHANGED <<cryptoVars, fileVars, bootVars, messages, sent, lastRx, marketVars>>

\* ChatConsumer.receive
Receive(c, data) ==
  /\ conn[c].st = "open"
  /\ lastRx.n < MaxFrames
  /\ LET id == Len(messages) + 1
         out == ReceiveOutcome(conn[c].user, data, id)
     IN
     /\ lastRx' = [via |-> "ws", conn |-> c, data |-> data,
                   stored |-> IF out.store THEN id ELSE 0,
                   n |-> lastRx.n + 1]
     /\ sent' = [sent EXCEPT ![c] = Append(@, out.reply)]
     /\ IF out.store
          THEN /\ messages' = Append(messages, out.msg)
               /\ chanq' = GroupSend(
                             GroupSend(chanq, out.msg.sender,
                                       ChatEvent(MessagePayload(out.msg))),
                             out.msg.receiver,
                             ChatEvent(MessagePayload(out.msg)))
          ELSE UNCHANGED <<messages, chanq>>
  /\ UNCHANGED <<cryptoVars, fileVars, bootVars, conn, groups, marketVars>>

\* ChatConsumer.chat_message: the next event of the connection's channel
ChatMessageEvent(c) ==
  /\ conn[c].st = "open"
  /\ chanq[c] # <<>>
  /\ sent' = [sent EXCEPT ![c] = Append(@, Head(chanq[c]).message)]
  /\ chanq' = [chanq EXCEPT ![c] = Tail(@)]
  /\ UNCHANGED <<cryptoVars, fileVars, bootVars, messages, conn, groups,
                 lastRx, marketVars>>

\* what send_message decides for a request of an authenticated user
SendMessageOutcome(user, data, id) ==
  LET receiver_id == data.receiver_id
      enc_msg == data.encrypted_message
      iv == data.iv
      mac == data.mac
      enc_key_recv == Or(data.encrypted_key, data.encrypted_key_for_receiver)
      enc_key_sender ==
        Or(data.encrypted_key_sender, data.encrypted_key_for_sender)
  IN
  IF \E v \in {receiver_id, enc_msg, iv, mac, enc_key_recv} : v = ""
    THEN [store |-> FALSE, status |-> 400]
  ELSE IF ~IntOf(receiver_id).ok THEN [store |-> FALSE, status |-> 500]
  ELSE IF IntOf(receiver_id).v \notin Users
    THEN [store |-> FALSE, status |-> 404]
  ELSE
    LET msg == NewMessage(id, user, IntOf(receiver_id).v, enc_msg, iv, mac,
                          enc_key_recv, enc_key_sender)
    IN  [store |-> TRUE, status |-> 201, msg |-> msg,
         body |-> MessagePayload(msg)]

\* POST send_message by user
SendMessage(user, data) ==
  /\ lastRx.n < MaxFrames
  /\ LET id == Len(messages) + 1
         out == SendMessageOutcome(user, data, id)
     IN
     /\ lastRx' = [via |-> "rest", user |-> user, data |-> data,
                   stored |-> IF out.store THEN id ELSE 0,
                   response |-> [f \in DOMAIN out \ {"store", "msg"} |-> out[f]],
                   n |-> lastRx.n + 1]
     /\ messages' = IF out.store THEN Append(messages, out.msg) ELSE messages
  /\ UNCHANGED <<cryptoVars, fileVars, bootVars, conn, groups, chanq, sent, marketVars>>

InitRelay ==
  /\ CryptoIdle
  /\ privFile = PrivatePemFile(1)
  /\ pubFile = PublicPemFile(1)
  /\ BootIdle
  /\ RelayIdle
  /\ MarketIdle

NextRelay ==
  \/ \E c \in Conns, u \in Users \cup {0} : Connect(c, u)
  \/ \E c \in Conns : Disconnect(c)
  \/ \E c \in Conns, data \in Frames : Receive(c, data)
  \/ \E c \in Conns : ChatMessageEvent(c)
  \/ \E u \in Users, data \in Requests : SendMessage(u, data)

SpecRelay == InitRelay /\ [][NextRelay]_vars

\* ---------------------------------------------------------------------------
\* C8
\* ---------------------------------------------------------------------------
\* the five crypto fields of a stored row or of a payload, by the names the
\* row uses
CryptoFields ==
  {"encrypted_message", "iv", "mac", "encrypted_key_for_receiver",
   "encrypted_key_for_sender"}

\* the value the client sent under the names of one wrap: the first name that
\* carries a value, nothing if neither does
ReceivedWrap(data, first, second) ==
  IF data[first] # "" THEN data[first] ELSE data[second]

StoredAsReceived(m, data) ==
  /\ m.encrypted_message = data.encrypted_message
  /\ m.iv = data.iv
  /\ m.mac = data.mac
  /\ m.encrypted_key_for_receiver =
       ReceivedWrap(data, "encrypted_key", "encrypted_key_for_receiver")
  /\ m.encrypted_key_for_sender =
       ReceivedWrap(data, "encrypted_key_sender", "encrypted_key_for_sender")

\* a payload carries the row it names, the two wraps under both names
ForwardsRow(payload) ==
  /\ payload.id \in 1..Len(messages)
  /\ LET m == messages[payload.id]
     IN  /\ \A f \in CryptoFields : payload[f] = m[f]
         /\ payload.encrypted_key = m.encrypted_key_for_receiver
         /\ payload.encrypted_key_sender = m.encrypted_key_for_sender

IsChatPayload(frame) == "encrypted_message" \in DOMAIN frame

\* C8: the server is a pure relay.  Over any sequence of WebSocket sends and
\* REST send_message calls no key is unwrapped and no message decrypted; the
\* row stored for a send holds the ciphertext, iv, mac and the two wraps
\* exactly as they were received and is never altered afterwards; and every
\* payload queued for a room, written to a socket or returned by the REST call
\* carries exactly the stored values.
C8_PureRelay ==
  /\ [](/\ result = NoResult
        /\ bundle = EmptyDict
        /\ rawKey = <<>>
        /\ \A p \in Procs : loaded[p] = NoKey)
  /\ [](lastRx.via # "none" /\ lastRx.stored # 0 =>
          /\ lastRx.stored = Len(messages)
          /\ StoredAsReceived(messages[lastRx.stored], lastRx.data))
  /\ [][\/ messages' = messages
        \/ /\ Len(messages') >= Len(messages)
           /\ \A i \in 1..Len(messages) :
                \A f \in CryptoFields : messages'[i][f] = messages[i][f]]_vars
  /\ [](\A c \in Conns :
          /\ \A i \in 1..Len(chanq[c]) : ForwardsRow(chanq[c][i].message)
          /\ \A i \in 1..Len(sent[c]) :
               IsChatPayload(sent[c][i]) => ForwardsRow(sent[c][i]))
  /\ [](lastRx.via = "rest" /\ lastRx.stored # 0 =>
          /\ lastRx.response.body.id = lastRx.stored
          /\ ForwardsRow(lastRx.response.body))

\* a WebSocket send that names the two wraps by the aliases has reached the
\* receiver's socket, and a REST send after it was stored and answered
C8_Witness ==
  /\ Len(messages) = 2
  /\ lastRx.via = "rest"
  /\ lastRx.stored = 2
  /\ lastRx.response.status = 201
  /\ messages[1].sender # messages[1].receiver
  /\ messages[1].encrypted_key_for_receiver = "wrB"
  /\ messages[1].encrypted_key_for_sender = "wsB"
  /\ \E c \in Conns :
       /\ conn[c].st = "open"
       /\ conn[c].user = messages[1].receiver
       /\ \E j \in 1..Len(sent[c]) :
            /\ IsChatPayload(sent[c][j])
            /\ sent[c][j].id = 1

\* a REST send that carries both names of the receiver wrap has been answered
C8_WitnessRest ==
  /\ lastRx.via = "rest"
  /\ lastRx.stored # 0
  /\ lastRx.data.encrypted_key = "wrA"
  /\ lastRx.data.encrypted_key_for_receiver = "wrB"
  /\ lastRx.response.status = 201

\* ---------------------------------------------------------------------------
\* concurrent starts: the processes start in any interleaving, each running
\* the module-level bootstrap and the writes of generate_rsa_keys step by step
\* ---------------------------------------------------------------------------
NextRace ==
  \/ \E p \in Procs : Boot(p)
  \/ \E p \in Procs : OpenPriv(p)
  \/ \E p \in Procs : WritePriv(p)
  \/ \E p \in Procs : OpenPub(p)
  \/ \E p \in Procs : WritePub(p)
  \/ \E p \in Procs : LoadKey(p)

SpecRace == InitBoot /\ [][NextRace]_vars

\* C11: when processes start concurrently with the key files absent, no
\* process opens for writing (and so truncates and replaces) a key file that
\* holds the key another process has written
C11_NoOverwrite ==
  [][\A p \in Procs :
       /\ (pc[p] = "open_priv" /\ pc'[p] = "write_priv")
            => privFile.st # "private pem"
       /\ (pc[p] = "open_pub" /\ pc'[p] = "write_pub")
            => pubFile.st # "public pem"]_vars

\* where the race ends: both processes are up and the two files hold halves
\* of different key pairs
C11_MixedPair ==
  /\ \A p \in Procs : pc[p] = "up"
  /\ privFile.st = "private pem"
  /\ pubFile.st = "public pem"
  /\ privFile.kid # pubFile.kid

\* ---------------------------------------------------------------------------
\* the padding helpers called on their own
\* ---------------------------------------------------------------------------
MaxBufLen == 4

BlockSizes == {2, 8, AES_BLOCK}

\* data of every length up to two blocks and one byte, in two fillings
PadData ==
  {ZeroBytes(n) : n \in 0..(AES_BLOCK * (MaxBlocks + 1) + 1)}
    \cup {PatternBytes(n, 7) : n \in 0..(AES_BLOCK * (MaxBlocks + 1) + 1)}

PadCalls ==
  {[fn |-> "pkcs7_pad", data |-> d, block_size |-> bs] :
     d \in PadData, bs \in BlockSizes}

\* every short buffer over a few byte values, and every padded buffer
TailBytes == {0, 1, 2, 3, AES_BLOCK + 1}

ShortBuffers == UNION {[1..n -> TailBytes] : n \in 0..MaxBufLen}

UnpadCalls ==
  {[fn |-> "pkcs7_unpad", padded |-> b, block_size |-> bs] :
     b \in ShortBuffers, bs \in BlockSizes}
  \cup
  {[fn |-> "pkcs7_unpad", padded |-> pkcs7_pad(c.data, c.block_size),
    block_size |-> bs] : c \in PadCalls, bs \in BlockSizes}

InitPadding ==
  /\ plain = <<>>
  /\ urandom = NoDraw
  /\ pems = NoPems
  /\ args \in PadCalls \cup UnpadCalls
  /\ bundle = EmptyDict
  /\ rawKey = <<>>
  /\ tamper = NoTamper
  /\ result = NoResult
  /\ privFile = PrivatePemFile(1)
  /\ pubFile = PublicPemFile(1)
  /\ BootIdle
  /\ RelayIdle
  /\ MarketIdle

CallPad ==
  /\ result = NoResult
  /\ args.fn = "pkcs7_pad"
  /\ result' = [op |-> "pkcs7_pad", out |-> pkcs7_pad(args.data, args.block_size)]
  /\ UNCHANGED <<inputVars, bundle, rawKey, tamper, fileVars, bootVars,
                 relayVars, marketVars>>

CallUnpad ==
  /\ result = NoResult
  /\ args.fn = "pkcs7_unpad"
  /\ result' = [op |-> "pkcs7_unpad",
                out |-> pkcs7_unpad(args.padded, args.block_size)]
  /\ UNCHANGED <<inputVars, bundle, rawKey, tamper, fileVars, bootVars,
                 relayVars, marketVars>>

NextPadding == CallPad \/ CallUnpad

SpecPadding == InitPadding /\ [][NextPadding]_vars

\* ---------------------------------------------------------------------------
\* C12: pkcs7_pad appends n bytes of value n, n = block_size - (len mod
\* block_size), so 1 <= n <= block_size: the result is the data followed by
\* the padding, its length is a positive multiple of block_size, and data
\* that already fills whole blocks gains a full block
\* ---------------------------------------------------------------------------
C12_PadAppends ==
  result.op = "pkcs7_pad" =>
    LET data == args.data
        bs == args.block_size
        out == result.out
        n == Len(out) - Len(data)
    IN  /\ n = bs - (Len(data) % bs)
        /\ 1 <= n /\ n <= bs
        /\ \A i \in 1..Len(data) : out[i] = data[i]
        /\ \A i \in (Len(data) + 1)..Len(out) : out[i] = n
        /\ Len(out) > 0
        /\ Len(out) % bs = 0
        /\ (Len(data) % bs = 0 => n = bs)

C12_Witness ==
  /\ result.op = "pkcs7_pad"
  /\ args.block_size = AES_BLOCK
  /\ Len(args.data) = AES_BLOCK
  /\ Len(result.out) = 2 * AES_BLOCK
  /\ result.out[Len(result.out)] = AES_BLOCK

\* ---------------------------------------------------------------------------
\* C13: pkcs7_unpad raises, returning no data, when the last byte n of the
\* buffer is 0, exceeds block_size, exceeds the buffer length, or the last n
\* bytes are not all n; otherwise it returns the buffer without its last n
\* bytes.  (An empty buffer, which has no last byte, raises as well.)
\* ---------------------------------------------------------------------------
BadPadding(buf, bs) ==
  LET n == buf[Len(buf)] IN
    \/ n = 0
    \/ n > bs
    \/ n > Len(buf)
    \/ \E i \in 1..Len(buf) : i > Len(buf) - n /\ buf[i] # n

C13_UnpadRejects ==
  result.op = "pkcs7_unpad" =>
    LET buf == args.padded
        bs == args.block_size
    IN  IF Len(buf) = 0 THEN result.out = Raise("ValueError")
        ELSE IF BadPadding(buf, bs) THEN result.out = Raise("ValueError")
        ELSE /\ result.out.ok
             /\ Len(result.out.v) = Len(buf) - buf[Len(buf)]
             /\ \A i \in 1..Len(result.out.v) : result.out.v[i] = buf[i]

\* a buffer that ends in zero bytes was rejected
C13_Witness ==
  /\ result.op = "pkcs7_unpad"
  /\ Len(args.padded) >= 2
  /\ \A i \in 1..Len(args.padded) : args.padded[i] = 0
  /\ result.out = Raise("ValueError")

\* a buffer whose last byte is a valid length but whose padding bytes differ
C13_WitnessMixed ==
  /\ result.op = "pkcs7_unpad"
  /\ args.padded = <<1, 3, 2, 3>>
  /\ ~result.out.ok

\* a full block of padding was removed
C13_WitnessAccepted ==
  /\ result.op = "pkcs7_unpad"
  /\ Len(args.padded) = 2 * AES_BLOCK
  /\ args.block_size = AES_BLOCK
  /\ result.out.ok
  /\ Len(result.out.v) = AES_BLOCK

\* ---------------------------------------------------------------------------
\* b64d called on its own
\* ---------------------------------------------------------------------------
MaxBytes == 3

MaxTextLen == 4

\* byte values whose encodings use '+', '/' and letters
ByteStrings == UNION {[1..n -> {0, 251, 255}] : n \in 0..MaxBytes}

InsertAt(s, p, c) == SubSeq(s, 1, p) \o <<c>> \o SubSeq(s, p + 1, Len(s))

UrlSafe(s) == [i \in 1..Len(s) |-> UrlSafeChar(s[i])]

StripPad(s) == SelectSeq(s, LAMBDA c : c # PadChar)

\* the ways a canonical encoding is written differently
Variants(e) ==
  {[how |-> "canonical", s |-> e],
   [how |-> "urlsafe", s |-> UrlSafe(e)],
   [how |-> "nopad", s |-> StripPad(e)],
   [how |-> "urlsafe nopad", s |-> StripPad(UrlSafe(e))]}
  \cup {[how |-> "whitespace", s |-> InsertAt(e, p, c)] :
          p \in 0..Len(e), c \in {10, 32}}
  \cup {[how |-> "whitespace", s |-> InsertAt(InsertAt(e, p, 13), p + 1, 10)] :
          p \in 0..Len(e)}
  \cup {[how |-> "all", s |-> InsertAt(StripPad(UrlSafe(e)), p, 10)] :
          p \in 0..Len(StripPad(e))}

TolerantCalls ==
  UNION {{[fn |-> "b64d", b |-> b, how |-> v.how, s |-> v.s] :
            v \in Variants(b64e(b))} : b \in ByteStrings}

\* 'A', 'Q', '=', '!', 'e' with an acute accent
TextChars == {65, 81, PadChar, 33, 233}

\* every short text over these, and "QQ!==", "Q!QQQ", "QUJD!"
RawTexts ==
  UNION {[1..n -> TextChars] : n \in 0..MaxTextLen}
    \cup {<<81, 81, 33, 61, 61>>, <<81, 33, 81, 81, 81>>, <<81, 85, 74, 68, 33>>}

RawCalls == {[fn |-> "b64d", b |-> <<>>, how |-> "raw", s |-> t] : t \in RawTexts}

InitB64 ==
  /\ plain = <<>>
  /\ urandom = NoDraw
  /\ pems = NoPems
  /\ args \in TolerantCalls \cup RawCalls
  /\ bundle = EmptyDict
  /\ rawKey = <<>>
  /\ tamper = NoTamper
  /\ result = NoResult
  /\ privFile = PrivatePemFile(1)
  /\ pubFile = PublicPemFile(1)
  /\ BootIdle
  /\ RelayIdle
  /\ MarketIdle

CallB64d ==
  /\ result = NoResult
  /\ args.fn = "b64d"
  /\ result' = [op |-> "b64d", out |-> b64d(args.s)]
  /\ UNCHANGED <<inputVars, bundle, rawKey, tamper, fileVars, bootVars,
                 relayVars, marketVars>>

NextB64 == CallB64d

SpecB64 == InitB64 /\ [][NextB64]_vars

\* ---------------------------------------------------------------------------
\* C14: the canonical encoding of b with whitespace or newlines inserted,
\* with '+' and '/' written '-' and '_', or with the trailing '=' removed,
\* decodes to exactly b
\* ---------------------------------------------------------------------------
C14_Tolerant ==
  (result.op = "b64d" /\ args.how # "raw") => result.out = Ret(args.b)

\* a URL-safe, unpadded encoding with a newline in it was decoded
C14_Witness ==
  /\ result.op = "b64d"
  /\ args.how = "all"
  /\ args.b = <<251, 255>>
  /\ \E i \in 1..Len(args.s) : args.s[i] = DashChar
  /\ \E i \in 1..Len(args.s) : args.s[i] = UnderscoreChar
  /\ \A i \in 1..Len(args.s) : args.s[i] # PadChar
  /\ result.out = Ret(<<251, 255>>)

\* ---------------------------------------------------------------------------
\* C15: b64d fails for every input that, after normalization, is not
\* well-formed base64 (groups of four alphabet characters, the last group
\* possibly ending in one or two '='), and returns no bytes for it
\* ---------------------------------------------------------------------------
WellFormed(t) ==
  /\ Len(t) % 4 = 0
  /\ \A i \in 1..Len(t) : IsData(t[i]) \/ (t[i] = PadChar /\ i > Len(t) - 2)
  /\ (Len(t) > 0 /\ t[Len(t)] # PadChar) => IsData(t[Len(t)])
  /\ \A i \in 1..Len(t) : (t[i] = PadChar /\ i < Len(t)) => t[i + 1] = PadChar

C15_MalformedRejected ==
  (result.op = "b64d" /\ ~WellFormed(b64_fix(args.s))) => ~result.out.ok

\* text with a character outside the alphabet was decoded to bytes
C15_GarbageAccepted ==
  /\ result.op = "b64d"
  /\ args.s = <<81, 81, 33, 61, 61>>
  /\ result.out = Ret(<<65>>)

\* malformed text that the decoder does refuse
C15_SomeRejected ==
  /\ result.op = "b64d"
  /\ args.s = <<65>>
  /\ result.out = Raise("binascii.Error")

\* ---------------------------------------------------------------------------
\* decrypt_aes_etm, rsa_decrypt_to_b64 and build_ws_payload_for_relay called
\* on inputs that make one of their stages fail
\* ---------------------------------------------------------------------------
\* a bundle whose MAC is right for its key, iv and ciphertext bytes
Sealed(key, iv, ct) ==
  [ciphertext_b64 |-> b64e(ct), iv_b64 |-> b64e(iv),
   mac_b64 |-> b64e(hmac_sha256(key, iv \o ct)), key_b64 |-> b64e(key)]

BundleFields == {"ciphertext_b64", "iv_b64", "mac_b64", "key_b64"}

\* "A" (one character of a group) and a character that is not ASCII
Undecodable == {<<65>>, <<200>>}

DecryptCase(why, b) == [fn |-> "decrypt_aes_etm", why |-> why, bundle |-> b]

DecryptCases(p, d) ==
  LET good == encrypt_aes_etm(p, d.key, d.iv)
      ct == b64d(good.ciphertext_b64).v
  IN  {DecryptCase("ok", good)}
      \cup {DecryptCase("malformed base64", [good EXCEPT ![f] = t]) :
              f \in BundleFields, t \in Undecodable}
      \cup {DecryptCase("mac mismatch", [good EXCEPT ![f] = b64e(<<1, 2, 3>>)]) :
              f \in BundleFields}
      \cup {DecryptCase("mac mismatch", [good EXCEPT ![f] = <<>>]) :
              f \in BundleFields}
      \cup {DecryptCase("wrong-length key", Sealed(SubSeq(d.key, 1, 5), d.iv, ct)),
            DecryptCase("wrong-length key", Sealed(<<>>, d.iv, ct)),
            DecryptCase("wrong-length iv", Sealed(d.key, SubSeq(d.iv, 1, 5), ct)),
            DecryptCase("wrong-length iv", Sealed(d.key, <<>>, ct)),
            DecryptCase("ciphertext length", Sealed(d.key, d.iv, SubSeq(ct, 1, 5))),
            DecryptCase("bad padding", Sealed(d.key, d.iv, <<>>)),
            DecryptCase("bad padding",
              Sealed(d.key, d.iv, AesCbcEncrypt(d.key, d.iv, ZeroBytes(AES_BLOCK)).v)),
            DecryptCase("invalid UTF-8",
              Sealed(d.key, d.iv,
                AesCbcEncrypt(d.key, d.iv, pkcs7_pad(<<255>>, AES_BLOCK)).v))}

UnwrapCase(why, w, k, file) == [fn |-> "rsa_decrypt_to_b64", why |-> why, encrypted_b64 |-> w, private_key |-> k, file |-> file]

UnwrapCases(d) ==
  LET w == rsa_encrypt_b64(b64e(d.key), PublicPem(1), d.seedR).v
      raw == b64d(w).v
      here == PrivatePemFile(1)
  IN  {UnwrapCase("ok", w, PrivateKey(1), here),
       UnwrapCase("ok", w, NoKey, here),
       UnwrapCase("mismatched RSA key", w, PrivateKey(2), here),
       UnwrapCase("mismatched RSA key", w, NoKey, PrivatePemFile(2)),
       UnwrapCase("invalid RSA key", w, NoKey, Absent),
       UnwrapCase("invalid RSA key", w, NoKey, EmptyFile),
       UnwrapCase("corrupted wrap", b64e(<<1, 2, 3>>), PrivateKey(1), here),
       UnwrapCase("corrupted wrap", <<>>, PrivateKey(1), here),
       UnwrapCase("corrupted wrap", b64e(SubSeq(raw, 1, Len(raw) - 1)), PrivateKey(1), here)}
      \cup {UnwrapCase("malformed base64", t, PrivateKey(1), here) : t \in Undecodable}
      \cup {UnwrapCase("corrupted wrap", b64e([raw EXCEPT ![i] = FlipBit(@, 0)]), PrivateKey(1), here) :
              i \in {1, 3, 4, Len(raw)}}

BuildCases(p, d) ==
  {[fn |-> "build_ws_payload_for_relay",
    why |-> IF GarbagePem \in {ps.sender, ps.receiver} THEN "invalid RSA key"
            ELSE "ok",
    plaintext |-> p, draw |-> d, pems |-> ps] :
     ps \in [sender : Pems, receiver : Pems]}

FailureCalls ==
  UNION {DecryptCases(p, d) \cup BuildCases(p, d) : p \in EnvPlaintexts, d \in Draws}
    \cup UNION {UnwrapCases(d) : d \in Draws}

InitFail ==
  /\ plain = <<>>
  /\ urandom = NoDraw
  /\ pems = NoPems
  /\ args \in FailureCalls
  /\ bundle = EmptyDict
  /\ rawKey = <<>>
  /\ tamper = NoTamper
  /\ result = NoResult
  /\ privFile = IF args.fn = "rsa_decrypt_to_b64" THEN args.file
                ELSE PrivatePemFile(1)
  /\ pubFile = PublicPemFile(1)
  /\ BootIdle
  /\ RelayIdle
  /\ MarketIdle

\* what the caller of the function gets: the value returned, or the exception
CallDecrypt ==
  /\ result = NoResult
  /\ args.fn = "decrypt_aes_etm"
  /\ result' = [op |-> "decrypt_aes_etm",
                out |-> Ret(decrypt_aes_etm(args.bundle.ciphertext_b64,
                              args.bundle.iv_b64, args.bundle.mac_b64,
                              args.bundle.key_b64).ret)]
  /\ UNCHANGED <<inputVars, bundle, rawKey, tamper, fileVars, bootVars,
                 relayVars, marketVars>>

CallUnwrap ==
  /\ result = NoResult
  /\ args.fn = "rsa_decrypt_to_b64"
  /\ result' = [op |-> "rsa_decrypt_to_b64",
                out |-> rsa_decrypt_to_b64(args.encrypted_b64, args.private_key,
                                           privFile)]
  /\ UNCHANGED <<inputVars, bundle, rawKey, tamper, fileVars, bootVars,
                 relayVars, marketVars>>

CallBuild ==
  /\ result = NoResult
  /\ args.fn = "build_ws_payload_for_relay"
  /\ result' = [op |-> "build_ws_payload_for_relay",
                out |-> build_ws_payload_for_relay(args.plaintext,
                          args.pems.sender, args.pems.receiver, args.draw.key,
                          args.draw.iv, args.draw.seedR, args.draw.seedS)]
  /\ UNCHANGED <<inputVars, bundle, rawKey, tamper, fileVars, bootVars,
                 relayVars, marketVars>>

NextFail == CallDecrypt \/ CallUnwrap \/ CallBuild

SpecFail == InitFail /\ [][NextFail]_vars

Called == result.op # "none"

Failing == Called /\ args.why # "ok"

C16_WitnessDecrypt ==
  /\ result.op = "decrypt_aes_etm"
  /\ args.why = "bad padding"
  /\ result.out = Ret(NoneVal)

\* the calls on sound inputs do return a value
C16_WitnessSound ==
  /\ result.op = "rsa_decrypt_to_b64"
  /\ args.why = "ok"
  /\ args.private_key = NoKey
  /\ result.out.ok

\* ---------------------------------------------------------------------------
\* the five operations called after boot while the key files are within reach
\* of other processes
\* ---------------------------------------------------------------------------
BootKeyFile == PrivatePemFile(1)

EncryptCalls ==
  {[fn |-> "encrypt_aes_etm", why |-> "ok", plaintext |-> p, draw |-> d] :
     p \in EnvPlaintexts, d \in Draws}

WrapCalls ==
  {[fn |-> "rsa_encrypt_b64",
    why |-> IF pem = GarbagePem THEN "invalid RSA key" ELSE "ok",
    data_b64 |-> b64e(d.key), pem |-> pem, seed |-> d.seedR] :
     pem \in Pems, d \in Draws}

SharedCalls ==
  {c \in FailureCalls : c.fn = "rsa_decrypt_to_b64" => c.file = BootKeyFile}
    \cup EncryptCalls \cup WrapCalls

InitShared ==
  /\ plain = <<>>
  /\ urandom = NoDraw
  /\ pems = NoPems
  /\ args \in SharedCalls
  /\ bundle = EmptyDict
  /\ rawKey = <<>>
  /\ tamper = NoTamper
  /\ result = NoResult
  /\ privFile = BootKeyFile
  /\ pubFile = PublicPemFile(1)
  /\ BootIdle
  /\ RelayIdle
  /\ MarketIdle

\* another process replaces, empties or removes private_key.pem (C11 shows
\* one way: a second instance that boots late rewrites it)
KeyFileChanged(f) ==
  /\ result = NoResult
  /\ privFile = BootKeyFile
  /\ privFile' = f
  /\ UNCHANGED <<cryptoVars, pubFile, bootVars, relayVars, marketVars>>

CallEncrypt ==
  /\ result = NoResult
  /\ args.fn = "encrypt_aes_etm"
  /\ result' = [op |-> "encrypt_aes_etm",
                out |-> Ret(encrypt_aes_etm(args.plaintext, args.draw.key,
                                            args.draw.iv))]
  /\ UNCHANGED <<inputVars, bundle, rawKey, tamper, fileVars, bootVars,
                 relayVars, marketVars>>

CallWrap ==
  /\ result = NoResult
  /\ args.fn = "rsa_encrypt_b64"
  /\ result' = [op |-> "rsa_encrypt_b64",
                out |-> rsa_encrypt_b64(args.data_b64, args.pem, args.seed)]
  /\ UNCHANGED <<inputVars, bundle, rawKey, tamper, fileVars, bootVars,
                 relayVars, marketVars>>

NextShared ==
  \/ \E f \in {PrivatePemFile(2), EmptyFile, Absent} : KeyFileChanged(f)
  \/ CallEncrypt
  \/ CallDecrypt
  \/ CallWrap
  \/ CallUnwrap
  \/ CallBuild

SpecShared == InitShared /\ [][NextShared]_vars

\* ---------------------------------------------------------------------------
\* C17: the operations are stateless: a call neither writes the key files
\* nor reads them, so its outcome is fixed by its arguments whatever other
\* processes did to the files since boot
\* ---------------------------------------------------------------------------
C17_Stateless ==
  result.op = "rsa_decrypt_to_b64" =>
    result.out = rsa_decrypt_to_b64(args.encrypted_b64, args.private_key,
                                    BootKeyFile)

\* the same unwrap call that yields the key at boot fails after the file
\* was replaced by another pair's
C17_KeyFileRead ==
  /\ result.op = "rsa_decrypt_to_b64"
  /\ args.private_key = NoKey
  /\ args.why = "ok"
  /\ privFile = PrivatePemFile(2)
  /\ ~result.out.ok

\* no call writes a key file
C17_NoWrite ==
  [][result' # result => UNCHANGED fileVars]_vars

\* with the key passed explicitly the outcome does not depend on the files
C17_ExplicitKey ==
  (result.op = "rsa_decrypt_to_b64" /\ args.private_key # NoKey) =>
    \A f \in {BootKeyFile, PrivatePemFile(2), EmptyFile, Absent} :
      result.out = rsa_decrypt_to_b64(args.encrypted_b64, args.private_key, f)

\* ---------------------------------------------------------------------------
\* C18: both handlers accept each wrap under either of its names, and every
\* message they emit (queued for a room, written to a socket, returned by the
\* REST call) carries the stored receiver wrap under both receiver names and
\* the stored sender wrap under both sender names
\* ---------------------------------------------------------------------------
\* a send that is complete but for the naming of its wraps
SendBut(data) ==
  /\ data.kind = "json"
  /\ data.type = ""
  /\ IntOf(data.receiver_id).ok
  /\ IntOf(data.receiver_id).v \in Users
  /\ data.encrypted_message # ""
  /\ data.iv # ""
  /\ data.mac # ""

Names(data, pair) == {data[f] : f \in pair} \ {""}

ReceiverNames == {"encrypted_key", "encrypted_key_for_receiver"}

SenderNames == {"encrypted_key_sender", "encrypted_key_for_sender"}

BothNames(payload) ==
  /\ ReceiverNames \cup SenderNames \subseteq DOMAIN payload
  /\ payload.id \in 1..Len(messages)
  /\ \A f \in ReceiverNames :
       payload[f] = messages[payload.id].encrypted_key_for_receiver
  /\ \A f \in SenderNames :
       payload[f] = messages[payload.id].encrypted_key_for_sender

C18_Aliases ==
  /\ (lastRx.via # "none" /\ SendBut(lastRx.data)
        /\ Names(lastRx.data, ReceiverNames) # {}) =>
       /\ lastRx.stored = Len(messages)
       /\ lastRx.stored # 0
       /\ messages[lastRx.stored].encrypted_key_for_receiver
            \in Names(lastRx.data, ReceiverNames)
       /\ Names(lastRx.data, SenderNames) # {} =>
            messages[lastRx.stored].encrypted_key_for_sender
              \in Names(lastRx.data, SenderNames)
  /\ \A c \in Conns :
       /\ \A i \in 1..Len(chanq[c]) : BothNames(chanq[c][i].message)
       /\ \A i \in 1..Len(sent[c]) :
            IsChatPayload(sent[c][i]) => BothNames(sent[c][i])
  /\ (lastRx.via = "rest" /\ lastRx.stored # 0) =>
       BothNames(lastRx.response.body)

\* a WebSocket send that used only the second name of each wrap was stored
\* and came out of a socket under all four names
C18_Witness ==
  /\ lastRx.via = "ws"
  /\ lastRx.stored # 0
  /\ lastRx.data.encrypted_key = ""
  /\ lastRx.data.encrypted_key_sender = ""
  /\ lastRx.data.encrypted_key_for_receiver = "wrB"
  /\ lastRx.data.encrypted_key_for_sender = "wsB"
  /\ \E c \in Conns : \E j \in 1..Len(sent[c]) :
       /\ IsChatPayload(sent[c][j])
       /\ sent[c][j].id = lastRx.stored
       /\ sent[c][j].encrypted_key = "wrB"
       /\ sent[c][j].encrypted_key_for_receiver = "wrB"
       /\ sent[c][j].encrypted_key_sender = "wsB"
       /\ sent[c][j].encrypted_key_for_sender = "wsB"

\* the same through the REST call
C18_WitnessRest ==
  /\ lastRx.via = "rest"
  /\ lastRx.stored # 0
  /\ lastRx.data.encrypted_key = ""
  /\ lastRx.data.encrypted_key_for_receiver = "wrB"
  /\ lastRx.response.body.encrypted_key = "wrB"
  /\ lastRx.response.body.encrypted_key_sender = "wsB"

\* ---------------------------------------------------------------------------
\* C19: a WebSocket send that receive rejects (invalid JSON, a missing
\* receiver_id / encrypted_message / iv / mac / receiver wrap, a receiver_id
\* that is not an integer, an unknown receiver) puts exactly one error frame
\* with the code of its defect and a message on the sender's socket, and
\* changes nothing else: no row is stored, no event is queued for any room,
\* no ack is sent
\* ---------------------------------------------------------------------------
RequiredFields == {"receiver_id", "encrypted_message", "iv", "mac"}

IsIntegerText(t) == t \in {"1", "2", "3", "9"}

\* the codes the defects of a frame call for
Causes(data) ==
  IF data.kind = "bad_json" THEN {"bad_json"}
  ELSE IF data.type # "" THEN {}
  ELSE
    {code \in {"missing_fields"} :
       \/ \E f \in RequiredFields : data[f] = ""
       \/ Names(data, ReceiverNames) = {}}
    \cup {code \in {"bad_field"} :
            data.receiver_id # "" /\ ~IsIntegerText(data.receiver_id)}
    \cup {code \in {"not_found"} :
            /\ IsIntegerText(data.receiver_id)
            /\ IntOf(data.receiver_id).v \notin Users}

C19_RejectLeavesUnchanged ==
  [][(lastRx' # lastRx /\ lastRx'.via = "ws" /\ Causes(lastRx'.data) # {}) =>
       LET c == lastRx'.conn
           e == sent'[c][Len(sent'[c])]
       IN  /\ messages' = messages
           /\ chanq' = chanq
           /\ conn' = conn
           /\ groups' = groups
           /\ lastRx'.stored = 0
           /\ sent' = [sent EXCEPT ![c] = Append(@, e)]
           /\ e.type = "error"
           /\ e.code \in Causes(lastRx'.data)
           /\ e.message # ""]_vars

\* after a message was stored and with the receiver connected, a send to an
\* unknown user was answered with not_found
C19_Witness ==
  /\ lastRx.via = "ws"
  /\ lastRx.data.receiver_id = "9"
  /\ lastRx.stored = 0
  /\ Len(messages) = 1
  /\ \A c \in Conns : conn[c].st = "open"
  /\ sent[lastRx.conn][Len(sent[lastRx.conn])].code = "not_found"

\* each of the four codes has been sent
C19_WitnessBadJson ==
  /\ lastRx.via = "ws"
  /\ lastRx.data.kind = "bad_json"
  /\ sent[lastRx.conn][Len(sent[lastRx.conn])].code = "bad_json"

C19_WitnessMissing ==
  /\ lastRx.via = "ws"
  /\ lastRx.data.kind = "json"
  /\ lastRx.data.iv = ""
  /\ sent[lastRx.conn][Len(sent[lastRx.conn])].code = "missing_fields"

C19_WitnessBadField ==
  /\ lastRx.via = "ws"
  /\ lastRx.data.kind = "json"
  /\ lastRx.data.receiver_id = "abc"
  /\ sent[lastRx.conn][Len(sent[lastRx.conn])].code = "bad_field"

\* ---------------------------------------------------------------------------
\* C20: try_self_decrypt picks exactly one wrap, the first non-empty field in
\* the order encrypted_key_for_me, encrypted_key_for_receiver,
\* encrypted_key_for_sender, encrypted_key, and tries the unwrap with that one
\* only: it returns None when no wrap field is present, and also when the
\* chosen wrap is not addressed to the service key even if a wrap of lower
\* priority on the same bundle is
\* ---------------------------------------------------------------------------
Preference ==
  <<"encrypted_key_for_me", "encrypted_key_for_receiver",
    "encrypted_key_for_sender", "encrypted_key">>

PresentWraps ==
  {i \in 1..Len(Preference) :
     Preference[i] \in DOMAIN bundle /\ bundle[Preference[i]] # <<>>}

Chosen == Preference[CHOOSE i \in PresentWraps : \A j \in PresentWraps : i <= j]

\* the wrap under name f opens with the service's private key
Addressed(f) == rsa_decrypt_to_b64(bundle[f], NoKey, privFile).ok

\* what unwrapping the wrap under f and decrypting with its key gives
Through(f) ==
  LET key == rsa_decrypt_to_b64(bundle[f], NoKey, privFile) IN
  IF ~key.ok \/ ~({"encrypted_message", "iv", "mac"} \subseteq DOMAIN bundle)
    THEN NoneVal
  ELSE decrypt_aes_etm(bundle.encrypted_message, bundle.iv, bundle.mac,
                       key.v).ret

C20_OneWrapTried ==
  result.op = "self_decrypt" =>
    IF PresentWraps = {} THEN result.out = Ret(NoneVal)
    ELSE /\ result.out = Ret(Through(Chosen))
         /\ ~Addressed(Chosen) => result.out = Ret(NoneVal)

\* the receiver wrap, made for another key, was chosen and None returned
\* although the sender wrap on the same bundle is addressed to the service
C20_Witness ==
  /\ result.op = "self_decrypt"
  /\ PresentWraps # {}
  /\ Chosen = "encrypted_key_for_receiver"
  /\ ~Addressed(Chosen)
  /\ Truthy(bundle, "encrypted_key_for_sender")
  /\ Addressed("encrypted_key_for_sender")
  /\ Through("encrypted_key_for_sender") = Some(plain)
  /\ result.out = Ret(NoneVal)

\* no wrap field present: None
C20_WitnessNoWrap ==
  /\ result.op = "self_decrypt"
  /\ bundle # EmptyDict
  /\ PresentWraps = {}
  /\ result.out = Ret(NoneVal)

\* an emptied receiver wrap is passed over and the sender wrap opens
C20_WitnessSkipsEmpty ==
  /\ result.op = "self_decrypt"
  /\ "encrypted_key_for_receiver" \in DOMAIN bundle
  /\ bundle.encrypted_key_for_receiver = <<>>
  /\ Chosen = "encrypted_key_for_sender"
  /\ result.out = Ret(Some(plain))

\* a wrap moved under encrypted_key_for_me wins over the receiver wrap
C20_WitnessForMe ==
  /\ result.op = "self_decrypt"
  /\ PresentWraps # {}
  /\ Chosen = "encrypted_key_for_me"
  /\ Truthy(bundle, "encrypted_key_for_receiver")
  /\ Addressed(Chosen) /\ ~Addressed("encrypted_key_for_receiver")
  /\ result.out = Ret(Some(plain))

\* ---------------------------------------------------------------------------
\* read marking (views.py): the three REST calls that set is_read
\* ---------------------------------------------------------------------------
\* QuerySet.update(is_read=True) on the rows that pass the filter
UpdateRead(msgs, rows) ==
  [i \in 1..Len(msgs) |->
     IF i \in rows THEN [msgs[i] EXCEPT !.is_read = TRUE] ELSE msgs[i]]

\* variant: the receiver is not part of the lookup
mark_message_read_any(msgs, user, message_id) ==
  IF message_id = 0 THEN [status |-> 400, messages |-> msgs]
  ELSE IF ~\E i \in 1..Len(msgs) : msgs[i].id = message_id
    THEN [status |-> 404, messages |-> msgs]
  ELSE [status |-> 200,
        messages |-> UpdateRead(msgs, {i \in 1..Len(msgs) : msgs[i].id = message_id})]

\* message_id 0 stands for a request without message_id
mark_message_read(msgs, user, message_id) ==
  IF message_id = 0 THEN [status |-> 400, messages |-> msgs]
  ELSE IF ~\E i \in 1..Len(msgs) :
             msgs[i].id = message_id /\ msgs[i].receiver = user
    THEN [status |-> 404, messages |-> msgs]
  ELSE [status |-> 200,
        messages |-> UpdateRead(msgs, {i \in 1..Len(msgs) : msgs[i].id = message_id /\ msgs[i].receiver = user})]

mark_messages_read_batch(msgs, user, ids) ==
  IF ids = {} THEN [status |-> 400, messages |-> msgs]
  ELSE [status |-> 200,
        messages |-> UpdateRead(msgs, {i \in 1..Len(msgs) : msgs[i].id \in ids /\ msgs[i].receiver = user /\ ~msgs[i].is_read})]

mark_thread_read(msgs, me, other_id) ==
  [status |-> 200,
   messages |-> UpdateRead(msgs, {i \in 1..Len(msgs) : msgs[i].sender = other_id /\ msgs[i].receiver = me /\ ~msgs[i].is_read})]

\* ids of stored messages, and one id no message has
SomeIds == 1..(MaxFrames + 1)

MarkCall(via, user, arg, out) ==
  /\ messages' = out.messages
  /\ lastRx' = [via |-> via, user |-> user, arg |-> arg, stored |-> 0,
                status |-> out.status, n |-> lastRx.n]
  /\ UNCHANGED <<cryptoVars, fileVars, bootVars, conn, groups, chanq, sent, marketVars>>

MarkMessageRead(user, message_id) ==
  MarkCall("mark_message_read", user, message_id,
           mark_message_read(messages, user, message_id))

MarkMessagesReadBatch(user, ids) ==
  MarkCall("mark_messages_read_batch", user, ids,
           mark_messages_read_batch(messages, user, ids))

MarkThreadRead(user, other_id) ==
  MarkCall("mark_thread_read", user, other_id,
           mark_thread_read(messages, user, other_id))

NextRead ==
  \/ \E u \in Users, data \in ValidFrames : SendMessage(u, data)
  \/ \E u \in Users, id \in {0} \cup SomeIds : MarkMessageRead(u, id)
  \/ \E u \in Users, ids \in SUBSET SomeIds : MarkMessagesReadBatch(u, ids)
  \/ \E u \in Users, o \in Users \cup {NUsers + 1} : MarkThreadRead(u, o)

SpecRead == InitRelay /\ [][NextRead]_vars

\* ---------------------------------------------------------------------------
\* C21: read marking is restricted to the receiver and is monotonic: a call
\* of one of the three marking operations by user U changes is_read only on
\* messages whose receiver is U and only from false to true; every other
\* message and every other field stays as it was, and no step of any
\* operation sets is_read back to false
\* ---------------------------------------------------------------------------
MarkOps == {"mark_message_read", "mark_messages_read_batch", "mark_thread_read"}

OtherFields(m) == [f \in DOMAIN m \ {"is_read"} |-> m[f]]

C21_ReadByReceiverOnly ==
  [][/\ Len(messages') >= Len(messages)
     /\ \A i \in 1..Len(messages) :
          /\ OtherFields(messages'[i]) = OtherFields(messages[i])
          /\ messages[i].is_read => messages'[i].is_read
          /\ messages'[i].is_read # messages[i].is_read =>
               /\ lastRx'.via \in MarkOps
               /\ lastRx'.user = messages[i].receiver
     /\ lastRx'.via \in MarkOps /\ lastRx' # lastRx =>
          Len(messages') = Len(messages)]_vars

\* a batch call that named two messages marked the caller's one and left the
\* other user's unread
C21_Witness ==
  /\ Len(messages) = 2
  /\ lastRx.via = "mark_messages_read_batch"
  /\ {1, 2} \subseteq lastRx.arg
  /\ messages[1].receiver = lastRx.user
  /\ messages[2].receiver # lastRx.user
  /\ messages[1].is_read
  /\ ~messages[2].is_read

\* mark_message_read on another user's message: 404, nothing marked
C21_WitnessNotMine ==
  /\ Len(messages) >= 1
  /\ lastRx.via = "mark_message_read"
  /\ lastRx.arg = 1
  /\ messages[1].receiver # lastRx.user
  /\ lastRx.status = 404
  /\ ~messages[1].is_read

\* ---------------------------------------------------------------------------
\* bookings and wallet payments (views.py, models.py).  Every user offers one
\* service, whose id is the user's id and whose price is ServicePrice; times
\* are slot numbers, 0 stands for a time that is missing or does not parse.
\* ---------------------------------------------------------------------------
MaxBookings == 2

MaxSlots == 2

MaxPays == 2

Times == 1..(MaxSlots + 1)

Active == {"pending", "confirmed"}

\* _provider_has_conflict; exclude_id 0 stands for None
provider_has_conflict(bks, provider_id, start_at, end_at, exclude_id) ==
  \E i \in 1..Len(bks) :
    /\ bks[i].provider = provider_id
    /\ bks[i].status \in Active
    /\ exclude_id = 0 \/ bks[i].id # exclude_id
    /\ bks[i].start_at < end_at
    /\ bks[i].end_at > start_at

\* Booking.objects.create(...) with status PENDING
NewBooking(id, service, client, start_at, end_at) ==
  [id |-> id, service |-> service, provider |-> service, client |-> client,
   start_at |-> start_at, end_at |-> end_at, status |-> "pending",
   price_snapshot |-> ServicePrice, transaction |-> 0, paid_at |-> FALSE]

\* the constraint uniq_pending_client_request_window
UniquePending(bks, b) ==
  ~\E i \in 1..Len(bks) :
     /\ bks[i].status = "pending" /\ b.status = "pending"
     /\ bks[i].service = b.service /\ bks[i].client = b.client
     /\ bks[i].start_at = b.start_at /\ bks[i].end_at = b.end_at

Insert(bks, b) ==
  IF UniquePending(bks, b) THEN [status |-> 201, bookings |-> Append(bks, b)]
  ELSE [status |-> 500, bookings |-> bks]

\* what bookings_list_create (POST) answers before it looks for conflicts
CreateGuard(client, service_id, start_at, end_at) ==
  IF service_id = 0 \/ start_at = 0 \/ end_at = 0 THEN 400
  ELSE IF end_at <= start_at THEN 400
  ELSE IF service_id \notin Users THEN 404
  ELSE IF service_id = client THEN 400
  ELSE 0

\* bookings_list_create (POST), one request at a time
bookings_create(bks, client, service_id, start_at, end_at) ==
  LET early == CreateGuard(client, service_id, start_at, end_at) IN
  IF early # 0 THEN [status |-> early, bookings |-> bks]
  ELSE IF provider_has_conflict(bks, service_id, start_at, end_at, 0)
    THEN [status |-> 409, bookings |-> bks]
  ELSE Insert(bks, NewBooking(Len(bks) + 1, service_id, client, start_at, end_at))

\* variant: any party of the booking may confirm
MutateChecks_any_party(me, b, action) ==
  IF action = "confirm" THEN
    IF me \notin {b.client, b.provider} THEN 403
    ELSE IF b.status # "pending" THEN 400 ELSE 0
  ELSE IF action = "reject" THEN
    IF me # b.provider THEN 403 ELSE IF b.status # "pending" THEN 400 ELSE 0
  ELSE IF action = "cancel" THEN
    IF me \notin {b.client, b.provider} THEN 403
    ELSE IF b.status \notin {"pending", "confirmed"} THEN 400 ELSE 0
  ELSE IF action = "complete" THEN
    IF me # b.provider THEN 403 ELSE IF b.status # "confirmed" THEN 400 ELSE 0
  ELSE 400

\* _mutate_booking: the checks of an action on the booking as it was read
MutateChecks(me, b, action) ==
  IF action = "confirm" THEN
    IF me # b.provider THEN 403 ELSE IF b.status # "pending" THEN 400 ELSE 0
  ELSE IF action = "reject" THEN
    IF me # b.provider THEN 403 ELSE IF b.status # "pending" THEN 400 ELSE 0
  ELSE IF action = "cancel" THEN
    IF me \notin {b.client, b.provider} THEN 403
    ELSE IF b.status \notin {"pending", "confirmed"} THEN 400 ELSE 0
  ELSE IF action = "complete" THEN
    IF me # b.provider THEN 403 ELSE IF b.status # "confirmed" THEN 400 ELSE 0
  ELSE 400

StatusAfter(action) ==
  IF action = "confirm" THEN "confirmed"
  ELSE IF action = "reject" THEN "rejected"
  ELSE IF action = "cancel" THEN "cancelled"
  ELSE "completed"

\* b.save(): the row of b.id is written from the object
Save(bks, b) == [i \in 1..Len(bks) |-> IF bks[i].id = b.id THEN b ELSE bks[i]]

\* the PATCH / POST views on one booking, one request at a time
bookings_mutate(bks, me, booking_id, action) ==
  IF booking_id \notin 1..Len(bks) THEN [status |-> 404, bookings |-> bks]
  ELSE IF action = "" THEN [status |-> 400, bookings |-> bks]
  ELSE
    LET b == bks[booking_id]
        early == MutateChecks(me, b, action)
    IN  IF early # 0 THEN [status |-> early, bookings |-> bks]
        ELSE IF action = "confirm" /\ provider_has_conflict(bks, b.provider, b.start_at, b.end_at, b.id)
          THEN [status |-> 409, bookings |-> bks]
        ELSE [status |-> 200,
              bookings |-> Save(bks, [b EXCEPT !.status = StatusAfter(action)])]

\* the amount of a request: absent, text that is no number, or a number
NoAmount == [kind |-> "none", v |-> 0]
TextAmount == [kind |-> "text", v |-> 0]
Amount(n) == [kind |-> "number", v |-> n]

PayError(code, bks, bal, txs, acts) ==
  [status |-> code, bookings |-> bks, balances |-> bal, transactions |-> txs,
   activities |-> acts]

\* variant: the price of the booking is not compared
PayChecks_any_amount(bks, me, booking_id, amount) ==
  IF booking_id = 0 \/ amount.kind = "none" \/ (amount.kind = "number" /\ amount.v = 0) THEN 400
  ELSE IF amount.kind = "text" THEN 400
  ELSE IF amount.v <= 0 THEN 400
  ELSE IF booking_id \notin 1..Len(bks) THEN 404
  ELSE IF bks[booking_id].client # me THEN 403
  ELSE IF bks[booking_id].status # "completed" THEN 400
  ELSE 0

\* wallet_pay up to the transaction block
PayChecks(bks, me, booking_id, amount) ==
  IF booking_id = 0 \/ amount.kind = "none" \/ (amount.kind = "number" /\ amount.v = 0) THEN 400
  ELSE IF amount.kind = "text" THEN 400
  ELSE IF amount.v <= 0 THEN 400
  ELSE IF booking_id \notin 1..Len(bks) THEN 404
  ELSE IF bks[booking_id].client # me THEN 403
  ELSE IF bks[booking_id].status # "completed" THEN 400
  ELSE IF amount.v # bks[booking_id].price_snapshot THEN 400
  ELSE 0

wallet_pay(bks, bal, txs, acts, me, booking_id, amount) ==
  LET early == PayChecks(bks, me, booking_id, amount) IN
  IF early # 0 THEN PayError(early, bks, bal, txs, acts)
  ELSE
    LET booking == bks[booking_id]
        provider == booking.provider
        current_balance == bal[me]
        provider_balance == bal[provider]
        tx == [id |-> Len(txs) + 1, sender |-> me, receiver |-> provider,
               amount |-> amount.v, status |-> "completed",
               tx_type |-> "payment"]
    IN  IF current_balance < amount.v THEN PayError(400, bks, bal, txs, acts)
        ELSE
          [status |-> 201,
           balances |-> [[bal EXCEPT ![me] = current_balance - amount.v]
                           EXCEPT ![provider] = provider_balance + amount.v],
           transactions |-> Append(txs, tx),
           bookings |-> Save(bks, [booking EXCEPT !.transaction = tx.id,
                                                  !.paid_at = TRUE]),
           activities |-> acts \o
             <<[user |-> me, activity_type |-> "transfer",
                amount |-> 0 - amount.v, transaction_hash |-> tx.id],
               [user |-> provider, activity_type |-> "transfer",
                amount |-> amount.v, transaction_hash |-> tx.id]>>]

Answered(op, user, arg, code) ==
  lastReq' = [op |-> op, user |-> user, arg |-> arg, status |-> code,
              tick |-> IF lastReq = NoReq THEN 0 ELSE 1 - lastReq.tick]

IdleButMarket == UNCHANGED <<cryptoVars, fileVars, bootVars, relayVars>>

CreateBooking(client, service_id, start_at, end_at) ==
  /\ Len(bookings) < MaxBookings
  /\ LET out == bookings_create(bookings, client, service_id, start_at, end_at)
     IN  /\ bookings' = out.bookings
         /\ Answered("bookings_create", client,
                     <<service_id, start_at, end_at>>, out.status)
  /\ UNCHANGED <<balances, transactions, activities, reqs>>
  /\ IdleButMarket

MutateBooking(me, booking_id, action) ==
  /\ LET out == bookings_mutate(bookings, me, booking_id, action)
     IN  /\ bookings' = out.bookings
         /\ Answered("bookings_mutate", me, <<booking_id, action>>, out.status)
  /\ UNCHANGED <<balances, transactions, activities, reqs>>
  /\ IdleButMarket

WalletPay(me, booking_id, amount) ==
  /\ Len(transactions) < MaxPays
  /\ LET out == wallet_pay(bookings, balances, transactions, activities, me,
                           booking_id, amount)
     IN  /\ bookings' = out.bookings
         /\ balances' = out.balances
         /\ transactions' = out.transactions
         /\ activities' = out.activities
         /\ Answered("wallet_pay", me, <<booking_id, amount>>, out.status)
  /\ UNCHANGED reqs
  /\ IdleButMarket

\* users start with enough for two payments, or with too little for one
InitPay ==
  /\ CryptoIdle
  /\ privFile = PrivatePemFile(1)
  /\ pubFile = PublicPemFile(1)
  /\ BootIdle
  /\ RelayIdle
  /\ bookings = <<>>
  /\ balances \in {[u \in Users |-> b] : b \in {ServicePrice - 1, StartBalance}}
  /\ transactions = <<>>
  /\ activities = <<>>
  /\ lastReq = NoReq
  /\ reqs = <<>>

BookingActions == {"", "confirm", "reject", "cancel", "complete", "no_show"}

Amounts == {NoAmount, TextAmount} \cup {Amount(n) : n \in {0 - 1, ServicePrice, ServicePrice + 1}}

\* a missing start, an empty window, and every window of whole slots
Windows == {<<0, 1>>, <<1, 1>>} \cup {w \in Times \X Times : w[1] < w[2]}

NextMarket ==
  \/ \E u \in Users, s \in 0..(NUsers + 1), w \in Windows : CreateBooking(u, s, w[1], w[2])
  \/ \E u \in Users, id \in 1..(MaxBookings + 1), a \in BookingActions : MutateBooking(u, id, a)

SpecMarket == InitRelay /\ [][NextMarket]_vars

\* payments, on bookings of the first slot that go through their life
NextPay ==
  \/ \E u \in Users, s \in Users : CreateBooking(u, s, 1, 2)
  \/ \E u \in Users, id \in 1..MaxBookings, a \in {"confirm", "cancel", "complete"} : MutateBooking(u, id, a)
  \/ \E u \in Users, id \in 0..(MaxBookings + 1), amt \in Amounts : WalletPay(u, id, amt)

SpecPay == InitPay /\ [][NextPay]_vars

\* ---------------------------------------------------------------------------
\* C22: wallet_pay changes state only for a valid payment: unless the caller
\* is the booking's client, the booking is COMPLETED, the amount is positive
\* and equal to the booking's price and the caller's balance covers it, the
\* call answers with an error and leaves balances, transactions, wallet
\* activities and bookings as they were
\* ---------------------------------------------------------------------------
ValidPayment(u, id, amt) ==
  /\ id \in 1..Len(bookings)
  /\ bookings[id].client = u
  /\ bookings[id].status = "completed"
  /\ amt.kind = "number"
  /\ amt.v > 0
  /\ amt.v = bookings[id].price_snapshot
  /\ balances[u] >= amt.v

PayAnswered == lastReq' # lastReq /\ lastReq'.op = "wallet_pay"

C22_OnlyValidPaymentChanges ==
  [][(PayAnswered /\ ~ValidPayment(lastReq'.user, lastReq'.arg[1], lastReq'.arg[2])) =>
       /\ lastReq'.status >= 400
       /\ UNCHANGED <<bookings, balances, transactions, activities>>]_vars

\* the client of a completed booking offered the right amount without the
\* balance for it and was refused
C22_Witness ==
  /\ lastReq.op = "wallet_pay"
  /\ lastReq.status = 400
  /\ lastReq.arg[1] \in 1..Len(bookings)
  /\ bookings[lastReq.arg[1]].client = lastReq.user
  /\ bookings[lastReq.arg[1]].status = "completed"
  /\ lastReq.arg[2] = Amount(ServicePrice)
  /\ balances[lastReq.user] < ServicePrice
  /\ transactions = <<>>

\* a valid payment went through
C22_WitnessPaid ==
  /\ lastReq.op = "wallet_pay"
  /\ lastReq.status = 201
  /\ Len(transactions) = 1
  /\ Len(activities) = 2
  /\ balances[lastReq.user] = StartBalance - ServicePrice

\* the provider of the booking tried to pay it
C22_WitnessNotClient ==
  /\ lastReq.op = "wallet_pay"
  /\ lastReq.status = 403
  /\ bookings[lastReq.arg[1]].provider = lastReq.user
  /\ bookings[lastReq.arg[1]].status = "completed"

\* ---------------------------------------------------------------------------
\* C29: a booking is paid at most once: a wallet_pay call succeeds only for
\* a booking that no earlier call has paid
\* ---------------------------------------------------------------------------
C29_PaidAtMostOnce ==
  [][(PayAnswered /\ lastReq'.status = 201) =>
       /\ bookings[lastReq'.arg[1]].transaction = 0
       /\ ~bookings[lastReq'.arg[1]].paid_at]_vars

\* the only booking there is has been paid twice
C29_PaidTwice ==
  /\ Len(bookings) = 1
  /\ Len(transactions) = 2
  /\ balances[bookings[1].client] = StartBalance - 2 * ServicePrice
  /\ balances[bookings[1].provider] = StartBalance + 2 * ServicePrice

\* ---------------------------------------------------------------------------
\* C27: booking status transitions: a booking is created PENDING; the only
\* transitions are PENDING to CONFIRMED or REJECTED (provider only), PENDING
\* or CONFIRMED to CANCELLED (client or provider) and CONFIRMED to COMPLETED
\* (provider only); REJECTED, CANCELLED and COMPLETED are terminal; any other
\* requested action answers with an error and leaves the stored status
\* unchanged
\* ---------------------------------------------------------------------------
Allowed(b, user, from, to) ==
  \/ from = "pending" /\ to \in {"confirmed", "rejected"} /\ user = b.provider
  \/ from \in {"pending", "confirmed"} /\ to = "cancelled" /\ user \in {b.client, b.provider}
  \/ from = "confirmed" /\ to = "completed" /\ user = b.provider

Statuses(bks) == [i \in 1..Len(bks) |-> bks[i].status]

MutateAnswered == lastReq' # lastReq /\ lastReq'.op = "bookings_mutate"

\* the request asks for a transition the table allows
Requested(user, id, action) ==
  /\ id \in 1..Len(bookings)
  /\ action \in {"confirm", "reject", "cancel", "complete"}
  /\ Allowed(bookings[id], user, bookings[id].status, StatusAfter(action))

C27_WitnessCompleted ==
  /\ lastReq.op = "bookings_mutate"
  /\ lastReq.status = 200
  /\ lastReq.arg[2] = "complete"
  /\ bookings[lastReq.arg[1]].status = "completed"
  /\ bookings[lastReq.arg[1]].provider = lastReq.user

\* an action on a booking in a terminal status was refused
C27_WitnessTerminal ==
  /\ lastReq.op = "bookings_mutate"
  /\ lastReq.status = 400
  /\ lastReq.arg[2] = "cancel"
  /\ lastReq.arg[1] \in 1..Len(bookings)
  /\ bookings[lastReq.arg[1]].status \in {"rejected", "cancelled", "completed"}

\* ---------------------------------------------------------------------------
\* Booking requests that overlap in time.  A worker handles a request in two
\* database rounds with nothing held in between: it reads (the booking, and
\* the provider's active bookings for the conflict check), then it writes
\* (INSERT for a create, save() of the object it read for a confirm).
\* reqs holds the requests that have read and not yet written.
\* ---------------------------------------------------------------------------
MaxInFlight == 2

Creating == Len(SelectSeq(reqs, LAMBDA r : r.op = "create"))

Without(q, i) == SubSeq(q, 1, i - 1) \o SubSeq(q, i + 1, Len(q))

\* bookings_list_create up to and including the conflict check
CreateRead(client, service_id, start_at, end_at) ==
  /\ Len(reqs) < MaxInFlight
  /\ Len(bookings) + Creating < MaxBookings
  /\ LET out == bookings_create(bookings, client, service_id, start_at, end_at)
     IN  IF out.status = 201 \/ out.status = 500
         THEN /\ reqs' = Append(reqs, [op |-> "create", user |-> client,
                                      b |-> NewBooking(0, service_id, client, start_at, end_at)])
              /\ UNCHANGED lastReq
         ELSE /\ Answered("bookings_create", client, <<service_id, start_at, end_at>>, out.status)
              /\ UNCHANGED reqs
  /\ UNCHANGED <<bookings, balances, transactions, activities>>
  /\ IdleButMarket

\* Booking.objects.create: the row is inserted under the unique constraint
CreateWrite(i) ==
  /\ i \in 1..Len(reqs)
  /\ reqs[i].op = "create"
  /\ LET b == reqs[i].b
         out == Insert(bookings, [b EXCEPT !.id = Len(bookings) + 1])
     IN  /\ bookings' = out.bookings
         /\ Answered("bookings_create", reqs[i].user, <<b.service, b.start_at, b.end_at>>, out.status)
  /\ reqs' = Without(reqs, i)
  /\ UNCHANGED <<balances, transactions, activities>>
  /\ IdleButMarket

\* bookings_confirm: the booking is read and _mutate_booking checks it
ConfirmRead(me, booking_id) ==
  /\ Len(reqs) < MaxInFlight
  /\ LET out == bookings_mutate(bookings, me, booking_id, "confirm")
     IN  IF out.status = 200
         THEN /\ reqs' = Append(reqs, [op |-> "confirm", user |-> me,
                                      b |-> bookings[booking_id]])
              /\ UNCHANGED lastReq
         ELSE /\ Answered("bookings_mutate", me, <<booking_id, "confirm">>, out.status)
              /\ UNCHANGED reqs
  /\ UNCHANGED <<bookings, balances, transactions, activities>>
  /\ IdleButMarket

\* b.mark_confirmed(); b.save(): the row is written from the object read
ConfirmWrite(i) ==
  /\ i \in 1..Len(reqs)
  /\ reqs[i].op = "confirm"
  /\ bookings' = Save(bookings, [reqs[i].b EXCEPT !.status = "confirmed"])
  /\ Answered("bookings_mutate", reqs[i].user, <<reqs[i].b.id, "confirm">>, 200)
  /\ reqs' = Without(reqs, i)
  /\ UNCHANGED <<balances, transactions, activities>>
  /\ IdleButMarket

\* a cancel that no other request overlaps
CancelBooking(me, booking_id) ==
  /\ MutateBooking(me, booking_id, "cancel")

NextBookRace ==
  \/ \E u \in Users, s \in Users, w \in Windows : CreateRead(u, s, w[1], w[2])
  \/ \E i \in 1..MaxInFlight : CreateWrite(i)
  \/ \E u \in Users, id \in 1..MaxBookings : ConfirmRead(u, id)
  \/ \E i \in 1..MaxInFlight : ConfirmWrite(i)
  \/ \E u \in Users, id \in 1..MaxBookings : CancelBooking(u, id)

SpecBookRace == InitRelay /\ [][NextBookRace]_vars

\* ---------------------------------------------------------------------------
\* C28: no double booking: in every reachable state no two bookings of one
\* provider that are both PENDING or CONFIRMED have overlapping time
\* windows, for any interleaving of concurrent create and confirm requests
\* ---------------------------------------------------------------------------
Overlap(a, b) == a.start_at < b.end_at /\ a.end_at > b.start_at

DoubleBooked(i, j) ==
  /\ i # j
  /\ bookings[i].provider = bookings[j].provider
  /\ bookings[i].status \in Active /\ bookings[j].status \in Active
  /\ Overlap(bookings[i], bookings[j])

C28_NoDoubleBooking ==
  \A i, j \in 1..Len(bookings) : ~DoubleBooked(i, j)

\* two creates read before either wrote, and both rows are in
C28_BothInserted ==
  /\ Len(bookings) = 2
  /\ DoubleBooked(1, 2)
  /\ bookings[1].status = "pending" /\ bookings[2].status = "pending"

\* a confirm wrote back a booking that was cancelled after it was read
C28_StaleConfirm ==
  /\ Len(bookings) = 2
  /\ DoubleBooked(1, 2)
  /\ "confirmed" \in {bookings[1].status, bookings[2].status}

\* ---------------------------------------------------------------------------
\* ChatConsumer.receive statement by statement.  Every await of a chat send
\* is a point where handlers of other connections run; a consumer itself
\* handles one frame or event at a time.  reqs holds the sends in progress:
\* the connection, the message, the statement that is next and the rooms
\* the payload has been sent to.
\* ---------------------------------------------------------------------------
\* variant: the ack is sent as soon as the frame has been validated
ReceiveSteps_ack_first == <<"ack", "create", "group_send sender_room", "group_send receiver_room">>

\* the statements of a chat send, lines 128-169, in the order of the code
ReceiveSteps == <<"create", "group_send sender_room", "group_send receiver_room", "ack">>

Handling(c) == \E i \in 1..Len(reqs) : reqs[i].conn = c

\* receive up to the lookup of the receiver
ReceiveValidate(c, data) ==
  /\ conn[c].st = "open"
  /\ ~Handling(c)
  /\ lastRx.n + Len(reqs) < MaxFrames
  /\ LET out == ReceiveOutcome(conn[c].user, data, 0)
     IN  IF out.store
         THEN /\ reqs' = Append(reqs, [op |-> "receive", conn |-> c, msg |-> out.msg,
                                      at |-> 1, rooms |-> <<>>])
              /\ UNCHANGED <<sent, lastRx>>
         ELSE /\ sent' = [sent EXCEPT ![c] = Append(@, out.reply)]
              /\ lastRx' = [via |-> "ws", conn |-> c, data |-> data, stored |-> 0,
                            n |-> lastRx.n + 1]
              /\ UNCHANGED reqs
  /\ UNCHANGED <<cryptoVars, fileVars, bootVars, messages, conn, groups, chanq>>
  /\ UNCHANGED <<bookings, balances, transactions, activities, lastReq>>

Advance(i) == [reqs EXCEPT ![i].at = @ + 1]

\* the next statement of the send in progress i; dbOk is whether
\* ChatMessage.objects.create succeeds
ReceiveStep(i, dbOk) ==
  /\ i \in 1..Len(reqs)
  /\ LET r == reqs[i]
         step == ReceiveSteps[r.at]
         next == IF r.at = Len(ReceiveSteps) THEN Without(reqs, i) ELSE Advance(i)
         event == ChatEvent(MessagePayload(r.msg))
     IN
     IF step = "create" THEN
       IF dbOk
         THEN LET id == Len(messages) + 1 IN
              /\ messages' = Append(messages, [r.msg EXCEPT !.id = id])
              /\ reqs' = [next EXCEPT ![i].msg.id = id]
              /\ lastRx' = [via |-> "ws", conn |-> r.conn, data |-> r.msg,
                            stored |-> id, n |-> lastRx.n + 1]
              /\ UNCHANGED <<chanq, sent>>
         ELSE /\ sent' = [sent EXCEPT ![r.conn] =
                            Append(@, ErrorFrame("server_error", "Failed to store message."))]
              /\ reqs' = Without(reqs, i)
              /\ lastRx' = [via |-> "ws", conn |-> r.conn, data |-> r.msg,
                            stored |-> 0, n |-> lastRx.n + 1]
              /\ UNCHANGED <<messages, chanq>>
     ELSE IF step = "group_send sender_room" THEN
       /\ chanq' = GroupSend(chanq, r.msg.sender, event)
       /\ reqs' = [next EXCEPT ![i].rooms = Append(@, r.msg.sender)]
       /\ UNCHANGED <<messages, sent, lastRx>>
     ELSE IF step = "group_send receiver_room" THEN
       /\ chanq' = GroupSend(chanq, r.msg.receiver, event)
       /\ reqs' = [next EXCEPT ![i].rooms = Append(@, r.msg.receiver)]
       /\ UNCHANGED <<messages, sent, lastRx>>
     ELSE
       /\ sent' = [sent EXCEPT ![r.conn] =
                     Append(@, [type |-> "ack", ok |-> TRUE, message_id |-> r.msg.id])]
       /\ reqs' = next
       /\ UNCHANGED <<messages, chanq, lastRx>>
  /\ UNCHANGED <<cryptoVars, fileVars, bootVars, conn, groups>>
  /\ UNCHANGED <<bookings, balances, transactions, activities, lastReq>>

OrderFrames ==
  {[GoodFrame EXCEPT !.receiver_id = to] : to \in {"1", "2"}}
  \cup {[GoodFrame EXCEPT !.type = "ping"], [GoodFrame EXCEPT !.receiver_id = "9"]}

NextOrder ==
  \/ \E c \in Conns, u \in Users : Connect(c, u)
  \/ \E c \in Conns : ~Handling(c) /\ Disconnect(c)
  \/ \E c \in Conns, data \in OrderFrames : ReceiveValidate(c, data)
  \/ \E i \in 1..NConns, dbOk \in BOOLEAN : ReceiveStep(i, dbOk)
  \/ \E c \in Conns : ~Handling(c) /\ ChatMessageEvent(c)

SpecOrder == InitRelay /\ [][NextOrder]_vars

\* ---------------------------------------------------------------------------
\* C23: ordering of a successful WebSocket send: the message is stored
\* exactly once before anything is broadcast, it is then sent to the
\* sender's room and to the receiver's room, and only afterwards the sender
\* gets an ack whose message_id is the id of the stored message; an ack is
\* never sent for a message that was not stored
\* ---------------------------------------------------------------------------
IsAck(frame) == "message_id" \in DOMAIN frame

\* the frames and queued events that carry message id k
Carrying(k) ==
  {<<c, j>> \in Conns \X (1..(3 * MaxFrames)) :
     \/ /\ j <= Len(sent[c])
        /\ \/ IsChatPayload(sent[c][j]) /\ sent[c][j].id = k
           \/ IsAck(sent[c][j]) /\ sent[c][j].message_id = k
     \/ j <= Len(chanq[c]) /\ chanq[c][j].message.id = k}

Grown(q) == {c \in Conns : Len(q'[c]) > Len(q[c])}

Acked(c) == Len(sent'[c]) > Len(sent[c]) /\ IsAck(sent'[c][Len(sent'[c])])

C23_Ordering ==
  [][/\ \A k \in 1..Len(messages') : messages'[k].id = k
     /\ Len(messages') > Len(messages) =>
          /\ Len(messages') = Len(messages) + 1
          /\ Carrying(Len(messages')) = {}
          /\ chanq' = chanq /\ sent' = sent
     /\ \A c \in Grown(chanq) :
          LET k == chanq'[c][Len(chanq'[c])].message.id IN
          /\ k \in 1..Len(messages)
          /\ messages' = messages
          /\ \A d \in Conns : \A j \in 1..Len(sent[d]) :
               IsAck(sent[d][j]) => sent[d][j].message_id # k
     /\ \A c \in Conns : Acked(c) =>
          LET k == sent'[c][Len(sent'[c])].message_id IN
          /\ k \in 1..Len(messages)
          /\ messages[k].sender = conn[c].user
          /\ \E i \in 1..Len(reqs) :
               /\ reqs[i].conn = c
               /\ reqs[i].msg.id = k
               /\ reqs[i].rooms = <<messages[k].sender, messages[k].receiver>>
          /\ messages' = messages /\ chanq' = chanq]_vars

\* a send ran to its end: stored, broadcast to a connection of the receiver,
\* acknowledged
C23_Witness ==
  /\ reqs = <<>>
  /\ \E c, d \in Conns :
       /\ c # d
       /\ sent[c] # <<>> /\ IsAck(sent[c][Len(sent[c])])
       /\ sent[c][Len(sent[c])].message_id = 1
       /\ messages[1].receiver = conn[d].user
       /\ conn[d].user # conn[c].user
       /\ \E j \in 1..Len(sent[d]) : IsChatPayload(sent[d][j]) /\ sent[d][j].id = 1

\* two sends in progress at once, one stored and broadcast to its sender's
\* room only, the other not yet stored
C23_WitnessInterleaved ==
  /\ Len(reqs) = 2
  /\ \E i, j \in 1..2 : reqs[i].rooms = <<reqs[i].msg.sender>> /\ reqs[j].at = 1

\* the create failed: an error frame and no ack
C23_WitnessNotStored ==
  /\ lastRx.n > 0 /\ lastRx.stored = 0
  /\ \E c \in Conns : sent[c] # <<>> /\ sent[c][Len(sent[c])] = ErrorFrame("server_error", "Failed to store message.")
  /\ messages = <<>>

\* ---------------------------------------------------------------------------
\* C24: routing isolation: a connection joins only the room of its own
\* authenticated user (an unauthenticated connection is closed with code
\* 4401 and joins no room), so over any sequence of connects and sends a
\* connection of user U receives a chat message only if U is that message's
\* sender or receiver
\* ---------------------------------------------------------------------------
Parties(payload) == {payload.sender, payload.receiver}

Unauthenticated(c) == conn[c].st = "closed" /\ conn[c].user = 0

C24_Isolation ==
  /\ \A u \in Users : \A c \in groups[u] : conn[c].st = "open" /\ conn[c].user = u
  /\ \A c \in Conns : Unauthenticated(c) =>
       /\ \A u \in Users : c \notin groups[u]
       /\ sent[c] = <<[type |-> "close", code |-> 4401]>>
       /\ chanq[c] = <<>>
  /\ \A c \in Conns :
       /\ \A j \in 1..Len(sent[c]) :
            IsChatPayload(sent[c][j]) => conn[c].user \in Parties(sent[c][j])
       /\ \A j \in 1..Len(chanq[c]) : conn[c].user \in Parties(chanq[c][j].message)

\* a message that a user sent to themselves reached their connection while a
\* connection of the other user was open, in its room, and got nothing
C24_Witness ==
  \E c, d \in Conns :
    /\ conn[c].st = "open" /\ conn[d].st = "open"
    /\ conn[c].user # conn[d].user
    /\ d \in groups[conn[d].user]
    /\ \E j \in 1..Len(sent[c]) :
         IsChatPayload(sent[c][j]) /\ Parties(sent[c][j]) = {conn[c].user}
    /\ sent[d] = <<>> /\ chanq[d] = <<>>

\* a connection without a valid token was closed while a chat message was
\* delivered to the other connection
C24_WitnessClosed ==
  \E c, d \in Conns :
    /\ Unauthenticated(c)
    /\ \E j \in 1..Len(sent[d]) : IsChatPayload(sent[d][j])

\* ---------------------------------------------------------------------------
\* C25: each stored chat message is delivered at most once to each connected
\* WebSocket connection, for every choice of sender and receiver, including
\* a user who sends a message to their own id
\* ---------------------------------------------------------------------------
Deliveries(c, k) ==
  {j \in 1..Len(sent[c]) : IsChatPayload(sent[c][j]) /\ sent[c][j].id = k}

C25_AtMostOnce ==
  \A c \in Conns : \A k \in 1..Len(messages) : Cardinality(Deliveries(c, k)) <= 1

\* a user sent a message to their own id and their connection got it twice
C25_SelfSendTwice ==
  \E c \in Conns : \E k \in 1..Len(messages) :
    /\ messages[k].sender = messages[k].receiver
    /\ conn[c].user = messages[k].sender
    /\ Cardinality(Deliveries(c, k)) = 2

\* between two different users every connection gets the message once
C25_OnceBetweenUsers ==
  \A c \in Conns : \A k \in 1..Len(messages) :
    messages[k].sender # messages[k].receiver => Cardinality(Deliveries(c, k)) <= 1

\* ---------------------------------------------------------------------------
\* starts on a disk that an earlier deployment left behind: each key file is
\* absent or holds its half of that deployment's pair
\* ---------------------------------------------------------------------------
OldPair == MaxGens + 1

InitDisk ==
  /\ CryptoIdle
  /\ privFile \in {Absent, PrivatePemFile(OldPair)}
  /\ pubFile \in {Absent, PublicPemFile(OldPair)}
  /\ pc = [p \in Procs |-> "down"]
  /\ mem = [p \in Procs |-> 0]
  /\ gens = 0
  /\ genDone = 0
  /\ loaded = [p \in Procs |-> NoKey]
  /\ RelayIdle
  /\ MarketIdle

SpecDisk == InitDisk /\ [][NextBoot]_vars

\* ---------------------------------------------------------------------------
\* C26: on-disk key pair consistency: in every state in which a boot has
\* finished and both private_key.pem and public_key.pem exist, the public
\* key file holds the public half of the private key file, for any sequence
\* of boots including boots that start with exactly one file present or
\* that crash between writing the private key and writing the public key
\* ---------------------------------------------------------------------------
BootFinished == \E p \in Procs : pc[p] = "up"

C26_PairConsistent ==
  (BootFinished /\ Exists(privFile) /\ Exists(pubFile)) =>
    /\ privFile.st = "private pem"
    /\ pubFile.st = "public pem"
    /\ pubFile.kid = privFile.kid

\* only public_key.pem was there; the start that regenerated the pair was
\* killed after writing the private key, and the next start found both files
C26_MixedAfterCrash ==
  /\ BootFinished
  /\ genDone = 0
  /\ privFile.st = "private pem" /\ privFile.kid # OldPair
  /\ pubFile = PublicPemFile(OldPair)

\* a start was killed after opening public_key.pem for writing; the next
\* start found both files and the public one is empty
C26_EmptyPublic ==
  /\ BootFinished
  /\ privFile.st = "private pem"
  /\ pubFile = EmptyFile

\* without a crash the start that finds one file regenerates both
C26_Regenerated ==
  /\ BootFinished
  /\ genDone = 1
  /\ privFile.st = "private pem" /\ pubFile.st = "public pem"
  /\ privFile.kid = pubFile.kid /\ privFile.kid # OldPair

====
